---- MODULE Spec2Model ----
(***************************************************************************)
(* Document segmentation and retrieval pipeline of fccassistant:           *)
(*   model/pdf_ingest.py      token-budget splitter and chunk orchestrator *)
(*   model/embed_and_index.py index build (batched embedding requests)     *)
(*   app/backend/main.py      artifact cache and FAISS retrieval           *)
(* Strings are sequences of one-character strings; pure functions of the   *)
(* source are operators computed the way the code computes them.           *)
(***************************************************************************)
EXTENDS Integers, Sequences, FiniteSets, TLC

VARIABLES
    splitTitle,   \* _split_to_token_budget: argument title
    splitBody,    \* _split_to_token_budget: argument body
    splitMax,     \* _split_to_token_budget: argument max_tokens
    splitOut,     \* _split_to_token_budget: returned list
    splitPc,      \* "call" before the call, "done" after it
    \* embed_and_index.main
    corpus,       \* the records load_chunks_jsonl yields, in file order
    recPos,       \* number of records the for loop has consumed
    embeddings,   \* embeddings: one vector per embedded record
    meta,         \* meta: one {"doc", "chunk_id"} per embedded record
    batch_texts,  \* texts buffered for the next request
    batch_meta,   \* their metadata
    batch_tokens, \* sum of their token estimates
    requests,     \* the get_embeddings calls issued so far (their inputs)
    buildPc,      \* "loop", "final" (loop over, flush pending), "done" (last
                  \* flush made), "raised", "exit", "save_vecs", "write_meta",
                  \* "write_index", "built"
    outFiles,     \* the state of out_vecs, out_meta and out_faiss in WORKDIR
    \* app/backend/main.py retrieve (the same code as app/query.py retrieve)
    qMeta,        \* the list read from embeddings_meta.jsonl
    qNTotal,      \* number of vectors in the FAISS index
    qRaw,         \* the records of corpus_chunks.jsonl, in file order
    qK,           \* argument k
    qIdxs,        \* idxs[0] returned by index.search
    qContexts,    \* returned list
    qPc,          \* "call", "done", "raised"
    \* app/backend/main.py artifact cache, concurrent requests, and the
    \* uploads of embed_and_index.upload_index_files
    blobVer,      \* bucket: per artifact, the build whose upload it holds (0: no blob)
    buildNo,      \* the build that is uploading or has uploaded last (0: none yet)
    upPos,        \* next artifact upload_index_files uploads (NumArtifacts + 1: finished)
    localFile,    \* GCS_CACHE_DIR: per artifact, [ver, complete] (ver 0: no file)
    rPc,          \* per request: "idle", "ensure", "open", "dl", "parse", "parse_raw",
                  \* "done" (retrieve has built its contexts)
    rStage,       \* per request: the artifact _ensure_local_from_gcs is called for
    rDlVer,       \* per request: the build of the blob it is downloading
    rUsed,        \* per request: per artifact, the file state it loaded
    rFetched,     \* per request: the artifacts this call downloaded
    rParsed,      \* per request: the artifacts this call loaded from disk
    rFresh,       \* per request: the call began less than one TTL after a load
    rAged,        \* per request: newest build published >= one TTL before the call
    loadFresh,    \* a call finished loading less than one TTL ago
    agedBuild,    \* newest build whose publication is at least one TTL old
    \* model/pdf_ingest.py chunk_text and the per-document step of main
    chunkTxt,     \* the extracted text of the document
    chunkArgs,    \* the arguments (size, overlap, source) chunk_text was called with
    chunkOut,     \* the list chunk_text returned
    chunkRecords, \* the records main wrote to corpus_chunks.jsonl for the document
    chunkRan,     \* the chunkers chunk_text called, in call order
    chunkPc,      \* "call", "called" (chunk_text returned), "skipped", "written"
    \* model/pdf_ingest.py _fallback_chunks, one loop iteration per step
    fbText,       \* argument text
    fbArgs,       \* the arguments (size, overlap) of the call
    fbOverlap,    \* overlap, once clamped
    fbStart,      \* start
    fbChunks,     \* chunks
    fbPc,         \* "call", "loop", "done"
    \* model/pdf_ingest.py _window_split, one loop iteration per step
    winTitle,     \* argument title
    winText,      \* argument text
    winMax,       \* argument max_tokens
    winChars,     \* window_chars
    winI,         \* i
    winPiece,     \* piece
    winParts,     \* parts
    winPc,        \* "call", "outer", "inner", "done"
    \* search_index, the ADK tool in front of retrieve
    toolModule,   \* the module whose search_index is called
    toolTopK,     \* argument top_k
    \* model/generate_tuning_data.py normalize_row
    rowIn,        \* argument row, as the caller passed it
    rowAfter,     \* the same object after the call (the turns are changed in place)
    rowOut,       \* the "contents" of the returned row
    rowErr,       \* the exception raised ("" for none)
    rowPc,        \* "call", "returned", "raised"
    \* app/backend/main.py login, logout and _require_auth
    ALLOWED_USERS, \* the environment variable, "email:pw,email2:pw2"
    TOKENS,       \* TOKENS: token -> email
    authIssued,   \* the tokens login has returned, with the credentials given
    authLoggedOut, \* the tokens that logout requests have carried
    authLast      \* the last operation, what it carried and how it ended

splitVars == <<splitTitle, splitBody, splitMax, splitOut, splitPc>>
buildVars == <<corpus, recPos, embeddings, meta, batch_texts, batch_meta,
               batch_tokens, requests, buildPc, outFiles>>

queryVars == <<qMeta, qNTotal, qRaw, qK, qIdxs, qContexts, qPc>>
cacheVars == <<blobVer, buildNo, upPos, localFile, rPc, rStage, rDlVer, rUsed,
               rFetched, rParsed, rFresh, rAged, loadFresh, agedBuild>>

chunkVars == <<chunkTxt, chunkArgs, chunkOut, chunkRecords, chunkRan, chunkPc>>

fbVars  == <<fbText, fbArgs, fbOverlap, fbStart, fbChunks, fbPc>>
winVars == <<winTitle, winText, winMax, winChars, winI, winPiece, winParts,
             winPc>>
loopVars == <<fbVars, winVars>>
toolVars == <<toolModule, toolTopK>>
rowVars  == <<rowIn, rowAfter, rowOut, rowErr, rowPc>>
authVars == <<ALLOWED_USERS, TOKENS, authIssued, authLoggedOut, authLast>>
appVars  == <<toolVars, rowVars, authVars>>

vars == <<splitVars, buildVars, queryVars, cacheVars, chunkVars, loopVars,
          appVars>>

\* what a component's actions leave alone
notSplitVars == <<buildVars, queryVars, cacheVars, chunkVars, loopVars,
                  appVars>>
notBuildVars == <<splitVars, queryVars, cacheVars, chunkVars, loopVars,
                  appVars>>
notQueryVars == <<splitVars, buildVars, cacheVars, chunkVars, loopVars,
                  appVars>>
notCacheVars == <<splitVars, buildVars, queryVars, chunkVars, loopVars,
                  appVars>>
notChunkVars == <<splitVars, buildVars, queryVars, cacheVars, loopVars,
                  appVars>>
notFbVars    == <<splitVars, buildVars, queryVars, cacheVars, chunkVars, winVars,
                  appVars>>
notWinVars   == <<splitVars, buildVars, queryVars, cacheVars, chunkVars, fbVars,
                  appVars>>
allButApp    == <<splitVars, buildVars, queryVars, cacheVars, chunkVars, loopVars>>

\* The variables of a component that a specification does not run
ParkedSplit ==
    /\ splitTitle = <<>> /\ splitBody = <<>> /\ splitMax = 1
    /\ splitOut = <<>> /\ splitPc = "parked"
ParkedBuild ==
    /\ corpus = <<>> /\ recPos = 0 /\ embeddings = <<>> /\ meta = <<>>
    /\ batch_texts = <<>> /\ batch_meta = <<>> /\ batch_tokens = 0
    /\ requests = <<>> /\ buildPc = "parked" /\ outFiles = <<>>
ParkedQuery ==
    /\ qMeta = <<>> /\ qNTotal = 0 /\ qRaw = <<>> /\ qK = 0
    /\ qIdxs = <<>> /\ qContexts = <<>> /\ qPc = "parked"
ParkedCache ==
    /\ blobVer = <<>> /\ buildNo = 0 /\ upPos = 0 /\ localFile = <<>>
    /\ rPc = <<>> /\ rStage = <<>> /\ rDlVer = <<>> /\ rUsed = <<>>
    /\ rFetched = <<>> /\ rParsed = <<>>
    /\ rFresh = <<>> /\ rAged = <<>> /\ loadFresh = FALSE /\ agedBuild = 0
ParkedChunk ==
    /\ chunkTxt = <<>> /\ chunkArgs = <<>> /\ chunkOut = <<>>
    /\ chunkRecords = <<>> /\ chunkRan = <<>> /\ chunkPc = "parked"

ParkedFb ==
    /\ fbText = <<>> /\ fbArgs = <<>> /\ fbOverlap = 0 /\ fbStart = 0
    /\ fbChunks = <<>> /\ fbPc = "parked"
ParkedWin ==
    /\ winTitle = <<>> /\ winText = <<>> /\ winMax = 1 /\ winChars = 0
    /\ winI = 0 /\ winPiece = <<>> /\ winParts = <<>> /\ winPc = "parked"
ParkedTool == toolModule = "parked" /\ toolTopK = 0
ParkedRow ==
    /\ rowIn = <<>> /\ rowAfter = <<>> /\ rowOut = <<>> /\ rowErr = ""
    /\ rowPc = "parked"
ParkedAuth ==
    /\ ALLOWED_USERS = <<>> /\ TOKENS = <<>> /\ authIssued = {}
    /\ authLoggedOut = {} /\ authLast = <<>>
ParkedApp == ParkedTool /\ ParkedRow /\ ParkedAuth
ParkedLoops == ParkedFb /\ ParkedWin /\ ParkedApp
ParkedPipeline ==
    /\ ParkedSplit /\ ParkedBuild /\ ParkedCache /\ ParkedChunk
    /\ ParkedFb /\ ParkedWin

OnlySplit == ParkedBuild /\ ParkedQuery /\ ParkedCache /\ ParkedChunk /\ ParkedLoops
OnlyBuild == ParkedSplit /\ ParkedQuery /\ ParkedCache /\ ParkedChunk /\ ParkedLoops
OnlyQuery == ParkedSplit /\ ParkedBuild /\ ParkedCache /\ ParkedChunk /\ ParkedLoops
OnlyCache == ParkedSplit /\ ParkedBuild /\ ParkedQuery /\ ParkedChunk /\ ParkedLoops
OnlyChunk == ParkedSplit /\ ParkedBuild /\ ParkedQuery /\ ParkedCache /\ ParkedLoops
OnlyFb    == ParkedSplit /\ ParkedBuild /\ ParkedQuery /\ ParkedCache /\ ParkedChunk
             /\ ParkedWin /\ ParkedApp
OnlyWin   == ParkedSplit /\ ParkedBuild /\ ParkedQuery /\ ParkedCache /\ ParkedChunk
             /\ ParkedFb /\ ParkedApp

----------------------------------------------------------------------------
(* Characters and Python string primitives                                 *)

NL == "\n"
SP == " "
WS == {" ", "\n", "\t", "\r"}          \* str.strip() / regex \s
Terminators == {".", "!", "?"}         \* regex [.!?]

Min(a, b) == IF a <= b THEN a ELSE b
Max(a, b) == IF a >= b THEN a ELSE b

\* F(v), with v computed before F is entered: one statement after another
Then(v, F(_)) == CHOOSE r \in {F(x) : x \in {v}} : TRUE

\* the smallest i in lo..hi with f[i], or 0 when there is none
First(f, lo, hi) ==
    IF \E i \in lo..hi : f[i]
    THEN CHOOSE i \in lo..hi : f[i] /\ \A j \in lo..(i - 1) : ~f[j]
    ELSE 0

\* str.lstrip()
LStrip(s) ==
    LET k == First([i \in 1..Len(s) |-> s[i] \notin WS], 1, Len(s))
    IN IF k = 0 THEN <<>> ELSE SubSeq(s, k, Len(s))

\* str.rstrip()
RStrip(s) ==
    LET k == First([i \in 1..Len(s) |-> s[Len(s) + 1 - i] \notin WS], 1, Len(s))
    IN IF k = 0 THEN <<>> ELSE SubSeq(s, 1, Len(s) + 1 - k)

\* str.strip()
Strip(s) == RStrip(LStrip(s))

\* s[i:j] for 0 <= i, 0 <= j (Python slice, 0-based, clipped at len(s))
Slice(s, i, j) == SubSeq(s, i + 1, Min(j, Len(s)))

\* sep.join(xs)
RECURSIVE Join(_, _)
Join(sep, xs) ==
    IF xs = <<>> THEN <<>>
    ELSE IF Len(xs) = 1 THEN xs[1]
    ELSE xs[1] \o sep \o Join(sep, Tail(xs))

\* number of leading "\n" of s
NLRun(s) ==
    LET k == First([i \in 1..Len(s) |-> s[i] # NL], 1, Len(s))
    IN IF k = 0 THEN Len(s) ELSE k - 1

\* re.split(r"\n{2,}", s)
RECURSIVE SplitBlank(_)
SplitBlank(s) ==
    LET k == First([i \in 1..(Len(s) - 1) |-> s[i] = NL /\ s[i + 1] = NL],
                   1, Len(s) - 1)
    IN IF k = 0 THEN <<s>>
       ELSE LET rest == SubSeq(s, k, Len(s))
            IN <<SubSeq(s, 1, k - 1)>>
                 \o SplitBlank(SubSeq(rest, NLRun(rest) + 1, Len(rest)))

\* re.split(r"(?<=[.!?])\s+", s): a whitespace run right after a terminator
RECURSIVE SplitSents(_)
SplitSents(s) ==
    LET k == First([i \in 2..Len(s) |-> s[i - 1] \in Terminators /\ s[i] \in WS],
                   2, Len(s))
    IN IF k = 0 THEN <<s>>
       ELSE <<SubSeq(s, 1, k - 1)>> \o SplitSents(LStrip(SubSeq(s, k, Len(s))))

\* c.split("\n\n", 1)[-1]: what follows the first "\n\n", or c when there is none
AfterFirstBlank(c) ==
    LET k == First([i \in 1..(Len(c) - 1) |-> c[i] = NL /\ c[i + 1] = NL],
                   1, Len(c) - 1)
    IN IF k = 0 THEN c ELSE SubSeq(c, k + 2, Len(c))

\* [x for x in xs if x] after mapping strip
RECURSIVE StripNonEmpty(_)
StripNonEmpty(xs) ==
    IF xs = <<>> THEN <<>>
    ELSE LET p == Strip(Head(xs)) IN
         IF p # <<>> THEN <<p>> \o StripNonEmpty(Tail(xs))
         ELSE StripNonEmpty(Tail(xs))

----------------------------------------------------------------------------
(* model/pdf_ingest.py: token counting (tiktoken absent: the except branch) *)

CHARS_PER_TOKEN == 3

_count_tokens(s) == Max(1, Len(s) \div CHARS_PER_TOKEN)

----------------------------------------------------------------------------
(* model/pdf_ingest.py: _window_split                                      *)

WINDOW_MIN_BUDGET == 200     \* max(200, max_tokens - title_tok)
WINDOW_MIN_CHARS  == 800     \* max(800, budget * 4)
WINDOW_FLOOR      == 200     \* ... and window_chars > 200

\* the test of the inner while without its floor on window_chars
ShrinkAgainNoFloor(piece, max_tokens, window_chars) ==
    _count_tokens(piece) > max_tokens

\* while _count_tokens(piece) > max_tokens and window_chars > 200
ShrinkAgain(piece, max_tokens, window_chars) ==
    _count_tokens(piece) > max_tokens /\ window_chars > WINDOW_FLOOR

\* int(window_chars * 0.9)
Shrunk(window_chars) == (window_chars * 9) \div 10

\* f"{title}\n\n{text[i:j].strip()}"; the slice is taken once
Piece(title, text, i, j) ==
    CHOOSE piece \in {title \o <<NL, NL>> \o Strip(body) :
                          body \in {Slice(text, i, j)}} : TRUE

\* the inner while: shrink the window by 0.9 while the piece is over budget
RECURSIVE WindowShrink(_, _, _, _, _, _)
WindowShrink(title, text, max_tokens, i, window_chars, piece) ==
    IF ShrinkAgain(piece, max_tokens, window_chars)
    THEN LET w == Shrunk(window_chars) IN
         WindowShrink(title, text, max_tokens, i, w,
                      title \o <<NL, NL>> \o Strip(Slice(text, i, i + w)))
    ELSE [window_chars |-> window_chars, piece |-> piece]

\* the outer while i < n
RECURSIVE WindowLoop(_, _, _, _, _, _)
WindowLoop(title, text, max_tokens, i, window_chars, parts) ==
    IF i < Len(text)
    THEN LET j == Min(Len(text), i + window_chars)
             r == WindowShrink(title, text, max_tokens, i, window_chars,
                               title \o <<NL, NL>> \o Strip(Slice(text, i, j)))
         IN WindowLoop(title, text, max_tokens, i + r.window_chars,
                       r.window_chars, Append(parts, r.piece))
    ELSE parts

\* window_chars = max(800, budget * 4), budget = max(200, max_tokens - title_tok)
InitialWindow(title, max_tokens) ==
    LET title_tok == _count_tokens(title) + 1
        budget    == Max(WINDOW_MIN_BUDGET, max_tokens - title_tok)
    IN Max(WINDOW_MIN_CHARS, budget * 4)

_window_split(title, text, max_tokens) ==
    WindowLoop(title, text, max_tokens, 0, InitialWindow(title, max_tokens), <<>>)

----------------------------------------------------------------------------
(* model/pdf_ingest.py: _split_to_token_budget                             *)

\* if text: chunks.append(text)
AppendIfText(chunks, text) == IF text # <<>> THEN Append(chunks, text) ELSE chunks

\* the sentences of buf joined, without the prelude in front
SentUnitBodyOnly(prelude, buf) == Strip(Join(<<SP>>, buf))

\* "\n".join([prelude, "", " ".join(buf).strip()]).strip()
SentUnit(prelude, buf) ==
    Strip(Join(<<NL>>, <<prelude, <<>>, Strip(Join(<<SP>>, buf))>>))

\* for s in sents: ... ; if buf: ...
RECURSIVE SentLoop(_, _, _, _, _, _)
SentLoop(prelude, max_tokens, sents, chunks, buf, buf_tok) ==
    IF sents = <<>>
    THEN IF buf # <<>> THEN AppendIfText(chunks, SentUnit(prelude, buf)) ELSE chunks
    ELSE LET s    == Head(sents)
             stok == _count_tokens(s)
         IN IF _count_tokens(prelude) + 1 + buf_tok + stok <= max_tokens
            THEN SentLoop(prelude, max_tokens, Tail(sents), chunks,
                          Append(buf, s), buf_tok + stok)
            ELSE SentLoop(prelude, max_tokens, Tail(sents),
                          AppendIfText(chunks, SentUnit(prelude, buf)), <<s>>, stok)

\* for para in paras: ... ; returns the chunks and the buffer left over
RECURSIVE ParaLoop(_, _, _, _, _, _)
ParaLoop(prelude, max_tokens, paras, chunks, cur, cur_tok) ==
    IF paras = <<>> THEN [chunks |-> chunks, cur |-> cur]
    ELSE LET para == Head(paras)
             ptok == _count_tokens(para)
             base == _count_tokens(prelude) + 1
         IN IF cur_tok + ptok > max_tokens
            THEN LET flushed == cur_tok > base
                     chunks1 == IF flushed
                                THEN AppendIfText(chunks, Strip(Join(<<NL>>, cur)))
                                ELSE chunks
                     cur1    == IF flushed THEN <<prelude, <<>>>> ELSE cur
                     tok1    == IF flushed THEN base ELSE cur_tok
                     chunks2 == SentLoop(prelude, max_tokens,
                                         SplitSents(para), chunks1, <<>>, 0)
                 IN ParaLoop(prelude, max_tokens, Tail(paras), chunks2, cur1, tok1)
            ELSE ParaLoop(prelude, max_tokens, Tail(paras), chunks,
                          Append(cur, para), cur_tok + ptok)

\* out = []; for c in chunks: fits ? out.append(c) : out.extend(_window_split(..))
RECURSIVE BudgetPass(_, _, _)
BudgetPass(prelude, max_tokens, chunks) ==
    IF chunks = <<>> THEN <<>>
    ELSE LET c == Head(chunks) IN
         (IF _count_tokens(c) <= max_tokens
          THEN <<c>>
          ELSE _window_split(prelude, AfterFirstBlank(c), max_tokens))
         \o BudgetPass(prelude, max_tokens, Tail(chunks))

_split_to_token_budget(title, body, max_tokens) ==
    LET full == IF body # <<>> THEN Strip(title \o <<NL, NL>> \o body)
                ELSE Strip(title)
    IN IF _count_tokens(full) <= max_tokens THEN <<full>>
       ELSE LET paras   == StripNonEmpty(SplitBlank(body))
                prelude == Strip(title)
                r       == ParaLoop(prelude, max_tokens, paras, <<>>,
                                    <<prelude, <<>>>>, _count_tokens(prelude) + 1)
                last    == Strip(Join(<<NL>>, r.cur))
                chunks  == IF last # <<>>
                              /\ _count_tokens(last) > _count_tokens(prelude) + 1
                           THEN Append(r.chunks, last) ELSE r.chunks
            IN BudgetPass(prelude, max_tokens, chunks)

----------------------------------------------------------------------------
(* Inputs of the splitter: texts are concatenations of a few fragments     *)

MaxFrags  == 5       \* fragments per body
MaxTokens == 2       \* max_tokens ranges over 1..MaxTokens

Word == <<"a", "a", "a", "a", "a">>
BodyFrags  == {<<"a">>, Word, <<".">>, <<SP>>, <<NL>>}
TitleTexts == {<<>>, <<"T">>, <<"T", "i", "t", "l", "e", "s">>, <<SP, "T">>}

RECURSIVE Texts(_, _)
Texts(frags, n) ==
    IF n = 0 THEN {<<>>}
    ELSE LET shorter == Texts(frags, n - 1) IN
         shorter \cup {t \o f : t \in shorter, f \in frags}

InitSplit ==
    /\ splitTitle \in TitleTexts
    /\ splitBody \in Texts(BodyFrags, MaxFrags)
    /\ splitMax \in 1..MaxTokens
    /\ splitOut = <<>>
    /\ splitPc = "call"
    /\ OnlySplit

Split ==
    /\ splitPc = "call"
    /\ splitOut' = _split_to_token_budget(splitTitle, splitBody, splitMax)
    /\ splitPc' = "done"
    /\ UNCHANGED <<splitTitle, splitBody, splitMax>>
    /\ UNCHANGED notSplitVars

NextSplit == Split

SpecSplit == InitSplit /\ [][NextSplit]_vars

----------------------------------------------------------------------------
(* Claims about _split_to_token_budget, checked under SpecSplit            *)

\* C1: every string in the list returned by _split_to_token_budget(title,
\* body, maxTokens), maxTokens >= 1, has _count_tokens(string) <= maxTokens,
\* also when the title alone or a single sentence exceeds the budget and
\* _window_split is reached.
C1_EveryUnitWithinBudget ==
    splitPc = "done" =>
        \A i \in 1..Len(splitOut) : _count_tokens(splitOut[i]) <= splitMax

----------------------------------------------------------------------------
(* model/embed_and_index.py: request batching of the index build           *)

\* config.EMBED_BATCH_SIZE is 32 and the REQUEST_TOKEN_BUDGET default is 18000;
\* both are scaled down here so that a corpus of a few short records reaches
\* the batch-size flush, the token-budget flush and the oversized singleton.
BATCH_SIZE           == 2
REQUEST_TOKEN_BUDGET == 4

CeilDiv(a, b) == (a + b - 1) \div b

\* len(s.split()): the number of maximal runs of non-whitespace
WordCount(s) ==
    Cardinality({i \in 1..Len(s) : s[i] \notin WS /\ (i = 1 \/ s[i - 1] \in WS)})

\* the except branch: max(math.ceil(words * 1.33), math.ceil(chars / 4))
estimate_tokens(s) == Max(CeilDiv(WordCount(s) * 133, 100), CeilDiv(Len(s), 4))

\* the embedding service: one vector per input string, in input order
EmbeddingOf(txt) == <<"vec", txt>>
get_embeddings(texts) == [i \in 1..Len(texts) |-> EmbeddingOf(texts[i])]

\* {"doc": rec.get("doc"), "chunk_id": rec.get("chunk_id")}
MetaOf(rec) == [doc |-> rec.doc, chunk_id |-> rec.chunk_id]

\* for m, emb in zip(batch_meta, res): stops at the shorter of the two
ZipLen(a, b) == Min(Len(a), Len(b))

\* flush(): b holds the locals of main
flush(b) ==
    IF b.batch_texts = <<>> THEN b
    ELSE LET res == get_embeddings(b.batch_texts)
             n   == ZipLen(b.batch_meta, res)
         IN [b EXCEPT !.requests     = Append(@, b.batch_texts),
                      !.embeddings   = @ \o SubSeq(res, 1, n),
                      !.meta         = @ \o SubSeq(b.batch_meta, 1, n),
                      !.batch_texts  = <<>>,
                      !.batch_meta   = <<>>,
                      !.batch_tokens = 0]

\* the branch tks > REQUEST_TOKEN_BUDGET without the flush of the pending batch
EmbedAloneNoFlush(b, rec) ==
    [b EXCEPT !.requests   = Append(@, <<rec.text>>),
              !.embeddings = Append(@, get_embeddings(<<rec.text>>)[1]),
              !.meta       = Append(@, MetaOf(rec))]

\* the branch tks > REQUEST_TOKEN_BUDGET: flush the batch, embed rec alone
EmbedAlone(b, rec) ==
    LET b1 == IF b.batch_texts # <<>> THEN flush(b) ELSE b
    IN [b1 EXCEPT !.requests   = Append(@, <<rec.text>>),
                  !.embeddings = Append(@, get_embeddings(<<rec.text>>)[1]),
                  !.meta       = Append(@, MetaOf(rec))]

\* the rest of the loop body with the token test of line 135 left out: flush
\* only when the batch is full
AddToBatchBySizeOnly(b, rec, tks) ==
    LET b1 == IF Len(b.batch_texts) >= BATCH_SIZE THEN flush(b) ELSE b
    IN [b1 EXCEPT !.batch_texts  = Append(@, rec.text),
                  !.batch_meta   = Append(@, MetaOf(rec)),
                  !.batch_tokens = @ + tks]

\* the rest of the loop body: flush if rec would overflow, then buffer rec
AddToBatch(b, rec, tks) ==
    LET b1 == IF b.batch_tokens + tks > REQUEST_TOKEN_BUDGET
                 \/ Len(b.batch_texts) >= BATCH_SIZE
              THEN flush(b) ELSE b
    IN [b1 EXCEPT !.batch_texts  = Append(@, rec.text),
                  !.batch_meta   = Append(@, MetaOf(rec)),
                  !.batch_tokens = @ + tks]

Locals ==
    [embeddings |-> embeddings, meta |-> meta, batch_texts |-> batch_texts,
     batch_meta |-> batch_meta, batch_tokens |-> batch_tokens,
     requests |-> requests]

SetLocals(b) ==
    /\ embeddings' = b.embeddings
    /\ meta' = b.meta
    /\ batch_texts' = b.batch_texts
    /\ batch_meta' = b.batch_meta
    /\ batch_tokens' = b.batch_tokens
    /\ requests' = b.requests

MaxRecords == 3      \* records in corpus_chunks.jsonl

\* out_vecs, out_meta and out_faiss in WORKDIR: "absent" or "old" (left by an
\* earlier build) before this build, "new" once this build has written it
PrevFiles ==
    {[out_vecs |-> st, out_meta |-> st, out_faiss |-> st] : st \in {"absent", "old"}}

RecTexts == {<<>>, <<"a">>, <<"a", SP, "b">>, <<"a", SP, "b", SP, "c", SP, "d">>}

\* pdf_ingest.main writes the records of one document after the other and
\* numbers the chunks of each document from 0: the first j records belong
\* to document "d1", the others to "d2".
CorpusOf(texts, j) ==
    [i \in 1..Len(texts) |->
        [doc      |-> IF i <= j THEN <<"d", "1">> ELSE <<"d", "2">>,
         chunk_id |-> IF i <= j THEN i - 1 ELSE i - j - 1,
         text     |-> texts[i]]]

Corpora ==
    UNION {{CorpusOf(texts, j) : texts \in [1..n -> RecTexts], j \in 0..n}
           : n \in 0..MaxRecords}

InitBuild ==
    /\ corpus \in Corpora
    /\ recPos = 0
    /\ embeddings = <<>> /\ meta = <<>>
    /\ batch_texts = <<>> /\ batch_meta = <<>> /\ batch_tokens = 0
    /\ requests = <<>>
    /\ buildPc = "loop"
    /\ outFiles \in PrevFiles
    /\ OnlyBuild

\* one iteration of the for loop on an oversized record (the continue branch)
LoopOversized ==
    /\ buildPc = "loop" /\ recPos < Len(corpus)
    /\ LET rec == corpus[recPos + 1] IN
        /\ estimate_tokens(rec.text) > REQUEST_TOKEN_BUDGET
        /\ SetLocals(EmbedAlone(Locals, rec))
    /\ recPos' = recPos + 1
    /\ UNCHANGED <<corpus, buildPc, outFiles>>
    /\ UNCHANGED notBuildVars

\* one iteration of the for loop on a record that goes through the batch
LoopBatched ==
    /\ buildPc = "loop" /\ recPos < Len(corpus)
    /\ LET rec == corpus[recPos + 1]
           tks == estimate_tokens(rec.text)
       IN /\ tks <= REQUEST_TOKEN_BUDGET
          /\ SetLocals(AddToBatch(Locals, rec, tks))
    /\ recPos' = recPos + 1
    /\ UNCHANGED <<corpus, buildPc, outFiles>>
    /\ UNCHANGED notBuildVars

\* the loop is exhausted
LoopEnd ==
    /\ buildPc = "loop" /\ recPos = Len(corpus)
    /\ buildPc' = "final"
    /\ UNCHANGED <<corpus, recPos, embeddings, meta, batch_texts, batch_meta,
                   batch_tokens, requests, outFiles>>
    /\ UNCHANGED notBuildVars

\* the flush() after the loop
FinalFlush ==
    /\ buildPc = "final"
    /\ SetLocals(flush(Locals))
    /\ buildPc' = "done"
    /\ UNCHANGED <<corpus, recPos, outFiles>>
    /\ UNCHANGED notBuildVars

\* the locals of main at the moment a get_embeddings call of the next step
\* raises: in the loop, the flush of the pending batch or, that flush done,
\* the request for the oversized record alone; after the loop, the last flush
RaisePoints ==
    IF buildPc = "final"
    THEN (IF batch_texts # <<>> THEN {Locals} ELSE {})
    ELSE IF buildPc = "loop" /\ recPos < Len(corpus)
    THEN LET tks == estimate_tokens(corpus[recPos + 1].text)
         IN IF tks > REQUEST_TOKEN_BUDGET
            THEN {Locals, flush(Locals)}
            ELSE IF /\ batch_texts # <<>>
                    /\ \/ batch_tokens + tks > REQUEST_TOKEN_BUDGET
                       \/ Len(batch_texts) >= BATCH_SIZE
                 THEN {Locals} ELSE {}
    ELSE {}

\* model.get_embeddings raises: nothing in main catches it
EmbedRaises ==
    /\ \E b \in RaisePoints : SetLocals(b)
    /\ buildPc' = "raised"
    /\ UNCHANGED <<corpus, recPos, outFiles>>
    /\ UNCHANGED notBuildVars

\* main without the test of embeddings
PcAfterFlushUnchecked(embs) == "save_vecs"

\* if not embeddings: raise SystemExit(...)
PcAfterFlush(embs) == IF embs = <<>> THEN "exit" ELSE "save_vecs"

CheckEmbeddings ==
    /\ buildPc = "done"
    /\ buildPc' = PcAfterFlush(embeddings)
    /\ UNCHANGED <<corpus, recPos, embeddings, meta, batch_texts, batch_meta,
                   batch_tokens, requests, outFiles>>
    /\ UNCHANGED notBuildVars

\* what the three writes of main leave alone
buildLocals == <<corpus, recPos, embeddings, meta, batch_texts, batch_meta,
                 batch_tokens, requests>>

\* np.save(out_vecs, vecs)
SaveVecs ==
    /\ buildPc = "save_vecs"
    /\ outFiles' = [outFiles EXCEPT !.out_vecs = "new"]
    /\ buildPc' = "write_meta"
    /\ UNCHANGED buildLocals
    /\ UNCHANGED notBuildVars

\* with out_meta.open("w") as f: one line per entry of meta
WriteMeta ==
    /\ buildPc = "write_meta"
    /\ outFiles' = [outFiles EXCEPT !.out_meta = "new"]
    /\ buildPc' = "write_index"
    /\ UNCHANGED buildLocals
    /\ UNCHANGED notBuildVars

\* faiss.write_index(index, str(out_faiss))
WriteIndex ==
    /\ buildPc = "write_index"
    /\ outFiles' = [outFiles EXCEPT !.out_faiss = "new"]
    /\ buildPc' = "built"
    /\ UNCHANGED buildLocals
    /\ UNCHANGED notBuildVars

NextBuild ==
    \/ LoopOversized
    \/ LoopBatched
    \/ LoopEnd
    \/ FinalFlush
    \/ EmbedRaises
    \/ CheckEmbeddings
    \/ SaveVecs
    \/ WriteMeta
    \/ WriteIndex

SpecBuild == InitBuild /\ [][NextBuild]_vars

----------------------------------------------------------------------------
(* Claims about the index build, checked under SpecBuild                   *)

\* C3: after the loop and the final flush, len(embeddings) = len(meta) = N and
\* for every i, meta[i] names the (doc, chunk_id) of the i-th corpus record
\* (and embeddings[i] is the vector of its text), whatever the interleaving
\* of batched flushes and oversized-singleton requests.
C3_OrdinalAlignment ==
    buildPc = "done" =>
        /\ Len(embeddings) = Len(corpus)
        /\ Len(meta) = Len(corpus)
        /\ \A i \in 1..Len(corpus) :
              /\ meta[i] = [doc |-> corpus[i].doc, chunk_id |-> corpus[i].chunk_id]
              /\ embeddings[i] = EmbeddingOf(corpus[i].text)

\* C3 witness: a finished build in which an oversized record was embedded
\* alone after a batched record had been buffered
C3_Witness ==
    /\ buildPc = "done"
    /\ Len(corpus) = MaxRecords
    /\ \E i \in 1..Len(corpus) : \E j \in 1..Len(corpus) :
          /\ i < j
          /\ estimate_tokens(corpus[i].text) <= REQUEST_TOKEN_BUDGET
          /\ estimate_tokens(corpus[j].text) > REQUEST_TOKEN_BUDGET
    /\ \E r \in 1..Len(requests) : Len(requests[r]) = 1

\* C11: if the corpus yields no embeddings, or any embedding call raises, the
\* index build aborts before writing or overwriting any of the vectors file,
\* the metadata file or the index file.
C11_AbortWritesNothing ==
    (\/ buildPc \in {"raised", "exit"}
     \/ (embeddings = <<>> /\ buildPc \notin {"parked", "loop", "final", "done"}))
        => outFiles \in PrevFiles

\* C11 witness: a build that made a request, then had one raise, over the
\* files of an earlier build
C11_Witness ==
    /\ buildPc = "raised"
    /\ requests # <<>>
    /\ outFiles.out_vecs = "old"

----------------------------------------------------------------------------
(* app/backend/main.py: retrieve (lines 187-204); app/query.py: retrieve   *)
(* (lines 91-110) resolves the hits in the same way.                       *)

\* str(n) for n >= 0
RECURSIVE Decimal(_)
Decimal(n) ==
    LET d == <<"0", "1", "2", "3", "4", "5", "6", "7", "8", "9">>[(n % 10) + 1]
    IN IF n < 10 THEN <<d>> ELSE Decimal(n \div 10) \o <<d>>

\* f'{r["doc"]}:{r["chunk_id"]}'
KeyOf(r) == r.doc \o <<":">> \o Decimal(r.chunk_id)

\* raw = {}; for line in f: raw[key] = r["text"]   (a later line overwrites)
RawHas(raw, key) == \E i \in 1..Len(raw) : KeyOf(raw[i]) = key
RawText(raw, key) ==
    LET last == CHOOSE i \in 1..Len(raw) :
                    /\ KeyOf(raw[i]) = key
                    /\ \A j \in (i + 1)..Len(raw) : KeyOf(raw[j]) # key
    IN raw[last].text

\* raw.get(key, "")
RawGet(raw, key) == IF RawHas(raw, key) THEN RawText(raw, key) ELSE <<>>

\* meta[i] for a Python int i: a negative i counts from the end of the list
PyInRange(xs, i) == -Len(xs) <= i /\ i < Len(xs)
PyIndex(xs, i) == IF i >= 0 THEN xs[i + 1] ELSE xs[Len(xs) + i + 1]

\* for i in idxs[0]: h = meta[i]; contexts.append(raw.get(key, "")), with the
\* hits whose key is missing left out
RECURSIVE ContextsSkipMissing(_, _, _)
ContextsSkipMissing(metaList, raw, idxs) ==
    IF idxs = <<>> THEN <<>>
    ELSE LET key == KeyOf(PyIndex(metaList, Head(idxs))) IN
         (IF RawHas(raw, key) THEN <<RawText(raw, key)>> ELSE <<>>)
         \o ContextsSkipMissing(metaList, raw, Tail(idxs))

\* for i in idxs[0]: h = meta[i]; contexts.append(raw.get(key, ""))
Contexts(metaList, raw, idxs) ==
    [p \in 1..Len(idxs) |-> RawGet(raw, KeyOf(PyIndex(metaList, idxs[p])))]

\* index.search(qv, k)[1][0]: the min(k, ntotal) nearest ordinals, nearest
\* first (which ones depends on the query), then -1 up to length k
Injective(f) == \A a \in DOMAIN f : \A b \in DOMAIN f : f[a] = f[b] => a = b
SearchResults(ntotal, k) ==
    LET m == Min(k, ntotal) IN
    {[p \in 1..k |-> IF p <= m THEN f[p] ELSE -1] :
        f \in {g \in [1..m -> 0..(ntotal - 1)] : Injective(g)}}


\* the records of c at the positions kept, in order
RECURSIVE SelectPositionsFrom(_, _, _)
SelectPositionsFrom(c, kept, i) ==
    IF i > Len(c) THEN <<>>
    ELSE (IF i \in kept THEN <<c[i]>> ELSE <<>>) \o SelectPositionsFrom(c, kept, i + 1)
SelectPositions(c, kept) == SelectPositionsFrom(c, kept, 1)

MaxVecs == 2         \* vectors in the index
MaxK    == 3         \* k ranges over 1..MaxK

PassageTexts == {<<"x">>, <<"y">>}

\* The artifacts of one build: n vectors, the metadata of the n records in
\* corpus order, and a corpus_chunks.jsonl that holds the records at the
\* positions kept (a re-ingestion may have rewritten it with fewer chunks).
InitQuery ==
    /\ \E n \in 1..MaxVecs, j \in 0..MaxVecs :
       \E texts \in [1..n -> PassageTexts], kept \in SUBSET (1..n) :
          LET c == CorpusOf(texts, Min(j, n)) IN
          /\ qNTotal = n
          /\ qMeta = [i \in 1..n |-> MetaOf(c[i])]
          /\ qRaw = SelectPositions(c, kept)
    /\ qK \in 1..MaxK
    /\ qIdxs = <<>> /\ qContexts = <<>>
    /\ qPc = "call"
    /\ OnlyQuery

\* retrieve(q, k): search, then resolve every returned ordinal
Retrieve ==
    /\ qPc = "call"
    /\ \E idxs \in SearchResults(qNTotal, qK) :
        /\ qIdxs' = idxs
        /\ IF \A p \in 1..Len(idxs) : PyInRange(qMeta, idxs[p])
           THEN qContexts' = Contexts(qMeta, qRaw, idxs) /\ qPc' = "done"
           ELSE qContexts' = <<>> /\ qPc' = "raised"     \* IndexError
    /\ UNCHANGED <<qMeta, qNTotal, qRaw, qK>>
    /\ UNCHANGED notQueryVars

NextQuery == Retrieve

SpecQuery == InitQuery /\ [][NextQuery]_vars

----------------------------------------------------------------------------
(* Claims about retrieve, checked under SpecQuery                          *)

\* the ordinals of a search result that are not the "no match" sentinel
ValidCount(idxs) == Cardinality({p \in 1..Len(idxs) : idxs[p] >= 0})

\* C4: when the index holds fewer than k vectors, retrieve(q, k) returns at
\* most min(k, index size) contexts: every negative sentinel ordinal is
\* discarded and never resolved to a passage.
C4_SentinelsDiscarded ==
    qPc = "done" => Len(qContexts) <= Min(qK, qNTotal)

\* C5: for the valid ordinals of the search, in rank order, the context of
\* ordinal i is the text of the corpus record whose (doc, chunk_id) equals
\* metadata entry i, or the empty string when no record has that key; a
\* missing key neither raises nor removes the other hits.
C5_HitsResolvedInRankOrder ==
    qPc # "call" =>
        /\ qPc = "done"
        /\ Len(qContexts) >= ValidCount(qIdxs)
        /\ \A p \in 1..Len(qIdxs) :
              qIdxs[p] >= 0 =>
                 LET h == qMeta[qIdxs[p] + 1] IN
                 \/ \E r \in 1..Len(qRaw) :
                       /\ qRaw[r].doc = h.doc /\ qRaw[r].chunk_id = h.chunk_id
                       /\ qContexts[p] = qRaw[r].text
                 \/ /\ \A r \in 1..Len(qRaw) :
                          ~(qRaw[r].doc = h.doc /\ qRaw[r].chunk_id = h.chunk_id)
                    /\ qContexts[p] = <<>>

\* C5 witness: two valid hits, the first one's key missing from the corpus
\* file and the second one resolved to its text
C5_Witness ==
    /\ qPc = "done"
    /\ Len(qIdxs) >= 2 /\ qIdxs[1] >= 0 /\ qIdxs[2] >= 0
    /\ qContexts[1] = <<>>
    /\ qContexts[2] # <<>>

----------------------------------------------------------------------------
(* app/backend/main.py: _ensure_local_from_gcs, load_index and retrieve as *)
(* concurrent requests over the local cache directory, with the uploads of *)
(* model/embed_and_index.py upload_index_files on the bucket side.         *)
(* The code keeps no clock: TTLElapse is the passage of one TTL (spec 4.6) *)
(* and only ages the two history flags the TTL claims speak about.         *)

NumReq    == 2       \* concurrent request threads
MaxBuilds == 2       \* index builds that publish to the bucket

\* retrieve asks for 1..3 in load_index and for 4 after the search;
\* upload_index_files uploads 1, 2, 3, 4 in this order
ARTIFACTS == <<"embeddings.npy", "faiss.index", "embeddings_meta.jsonl",
               "corpus_chunks.jsonl">>
NumArtifacts == Len(ARTIFACTS)
LoadIndexArtifacts == {1, 2, 3}      \* load_index
RawArtifact == 4                     \* corpus_chunks.jsonl
\* a truncated .jsonl file may still parse (cut at a line end); a truncated
\* .npy or FAISS file makes np.load / faiss.read_index raise
ParsesWhenTruncated == {3, 4}

Reqs == 1..NumReq
Absent == [ver |-> 0, complete |-> FALSE]
NoneUsed == [n \in 1..NumArtifacts |-> Absent]

\* the newest build all of whose artifacts are uploaded
Published == IF upPos > NumArtifacts THEN buildNo ELSE buildNo - 1

InitCache ==
    /\ blobVer = [n \in 1..NumArtifacts |-> 0]
    /\ buildNo = 0
    /\ upPos = NumArtifacts + 1
    /\ localFile = [n \in 1..NumArtifacts |-> Absent]
    /\ rPc = [r \in Reqs |-> "idle"]
    /\ rStage = [r \in Reqs |-> 1]
    /\ rDlVer = [r \in Reqs |-> 0]
    /\ rUsed = [r \in Reqs |-> NoneUsed]
    /\ rFetched = [r \in Reqs |-> {}]
    /\ rParsed = [r \in Reqs |-> {}]
    /\ rFresh = [r \in Reqs |-> FALSE]
    /\ rAged = [r \in Reqs |-> 0]
    /\ loadFresh = FALSE
    /\ agedBuild = 0
    /\ OnlyCache

\* the variables of the requests, of the bucket, and the TTL history
reqVars == <<rPc, rStage, rDlVer, rUsed, rFetched, rParsed, rFresh, rAged>>
bucketVars == <<blobVer, buildNo, upPos>>
ttlVars == <<loadFresh, agedBuild>>

\* embed_and_index.main reaches upload_index_files for a new build
StartBuild ==
    /\ upPos > NumArtifacts /\ buildNo < MaxBuilds
    /\ buildNo' = buildNo + 1
    /\ upPos' = 1
    /\ UNCHANGED <<blobVer, localFile, reqVars, ttlVars>>
    /\ UNCHANGED notCacheVars

\* blob.upload_from_filename for the next of the four files
Upload ==
    /\ upPos <= NumArtifacts
    /\ blobVer' = [blobVer EXCEPT ![upPos] = buildNo]
    /\ upPos' = upPos + 1
    /\ UNCHANGED <<buildNo, localFile, reqVars, ttlVars>>
    /\ UNCHANGED notCacheVars

\* one TTL passes
TTLElapse ==
    /\ loadFresh \/ agedBuild # Published
    /\ loadFresh' = FALSE
    /\ agedBuild' = Published
    /\ UNCHANGED <<bucketVars, localFile, reqVars>>
    /\ UNCHANGED notCacheVars

\* a request enters retrieve -> load_index -> _ensure_local_from_gcs(1)
Call(r) ==
    /\ rPc[r] = "idle"
    /\ rPc' = [rPc EXCEPT ![r] = "ensure"]
    /\ rFresh' = [rFresh EXCEPT ![r] = loadFresh]
    /\ rAged' = [rAged EXCEPT ![r] = agedBuild]
    /\ UNCHANGED <<rStage, rDlVer, rUsed, rFetched, rParsed>>
    /\ UNCHANGED <<bucketVars, localFile, ttlVars>>
    /\ UNCHANGED notCacheVars

\* where retrieve continues once _ensure_local_from_gcs(n) has returned a path
PcAfterEnsure(n) ==
    IF n < 3 THEN "ensure" ELSE IF n = 3 THEN "parse" ELSE "parse_raw"
StageAfterEnsure(n) == IF n < 3 THEN n + 1 ELSE n

\* retrieve is left (by return or by an exception): its locals are gone
Leave(r) ==
    /\ rPc' = [rPc EXCEPT ![r] = "idle"]
    /\ rStage' = [rStage EXCEPT ![r] = 1]
    /\ rDlVer' = [rDlVer EXCEPT ![r] = 0]
    /\ rUsed' = [rUsed EXCEPT ![r] = NoneUsed]
    /\ rFetched' = [rFetched EXCEPT ![r] = {}]
    /\ rParsed' = [rParsed EXCEPT ![r] = {}]
    /\ rFresh' = [rFresh EXCEPT ![r] = FALSE]
    /\ rAged' = [rAged EXCEPT ![r] = 0]

\* os.path.exists(local_path): return local_path
EnsureCached(r) ==
    /\ rPc[r] = "ensure"
    /\ localFile[rStage[r]].ver # 0
    /\ rPc' = [rPc EXCEPT ![r] = PcAfterEnsure(rStage[r])]
    /\ rStage' = [rStage EXCEPT ![r] = StageAfterEnsure(rStage[r])]
    /\ UNCHANGED <<rDlVer, rUsed, rFetched, rParsed, rFresh, rAged>>
    /\ UNCHANGED <<bucketVars, localFile, ttlVars>>
    /\ UNCHANGED notCacheVars

\* no local file and not blob.exists(): raise FileNotFoundError
EnsureNoBlob(r) ==
    /\ rPc[r] = "ensure"
    /\ localFile[rStage[r]].ver = 0
    /\ blobVer[rStage[r]] = 0
    /\ Leave(r)
    /\ UNCHANGED <<bucketVars, localFile, ttlVars>>
    /\ UNCHANGED notCacheVars

\* no local file and blob.exists(): go on to download_to_filename
EnsureMissing(r) ==
    /\ rPc[r] = "ensure"
    /\ localFile[rStage[r]].ver = 0
    /\ blobVer[rStage[r]] # 0
    /\ rPc' = [rPc EXCEPT ![r] = "open"]
    /\ UNCHANGED <<rStage, rDlVer, rUsed, rFetched, rParsed, rFresh, rAged>>
    /\ UNCHANGED <<bucketVars, localFile, ttlVars>>
    /\ UNCHANGED notCacheVars

\* download_to_filename opens local_path for writing: the file exists from
\* now on, with part of the blob's bytes
DownloadOpen(r) ==
    /\ rPc[r] = "open"
    /\ localFile' = [localFile EXCEPT ![rStage[r]] =
                        [ver |-> blobVer[rStage[r]], complete |-> FALSE]]
    /\ rDlVer' = [rDlVer EXCEPT ![r] = blobVer[rStage[r]]]
    /\ rFetched' = [rFetched EXCEPT ![r] = @ \cup {rStage[r]}]
    /\ rPc' = [rPc EXCEPT ![r] = "dl"]
    /\ UNCHANGED <<rStage, rUsed, rParsed, rFresh, rAged>>
    /\ UNCHANGED <<bucketVars, ttlVars>>
    /\ UNCHANGED notCacheVars

\* another request is writing the same local file
OtherWriter(r) ==
    \E o \in Reqs \ {r} : rPc[o] = "dl" /\ rStage[o] = rStage[r]

\* download_to_filename returns: the file is complete unless another
\* download is still writing it
DownloadDone(r) ==
    /\ rPc[r] = "dl"
    /\ localFile' = [localFile EXCEPT ![rStage[r]] =
                        [ver |-> rDlVer[r], complete |-> ~OtherWriter(r)]]
    /\ rPc' = [rPc EXCEPT ![r] = PcAfterEnsure(rStage[r])]
    /\ rStage' = [rStage EXCEPT ![r] = StageAfterEnsure(rStage[r])]
    /\ rDlVer' = [rDlVer EXCEPT ![r] = 0]
    /\ UNCHANGED <<rUsed, rFetched, rParsed, rFresh, rAged>>
    /\ UNCHANGED <<bucketVars, ttlVars>>
    /\ UNCHANGED notCacheVars

\* download_to_filename raises midway: the client library removes the file
\* for some errors and leaves the partial file for the others
DownloadFail(r) ==
    /\ rPc[r] = "dl"
    /\ \E removed \in BOOLEAN :
          localFile' = IF removed THEN [localFile EXCEPT ![rStage[r]] = Absent]
                       ELSE [localFile EXCEPT ![rStage[r]].complete = FALSE]
    /\ Leave(r)
    /\ UNCHANGED <<bucketVars, ttlVars>>
    /\ UNCHANGED notCacheVars

\* a file the parser accepts: complete, or a truncated .jsonl
Loadable(n) ==
    /\ localFile[n].ver # 0
    /\ localFile[n].complete \/ n \in ParsesWhenTruncated

\* np.load, faiss.read_index, the metadata loop, embed_query and the search
LoadIndex(r) ==
    /\ rPc[r] = "parse"
    /\ \A n \in LoadIndexArtifacts : Loadable(n)
    /\ rUsed' = [rUsed EXCEPT ![r] =
                    [n \in 1..NumArtifacts |->
                        IF n \in LoadIndexArtifacts THEN localFile[n] ELSE @[n]]]
    /\ rParsed' = [rParsed EXCEPT ![r] = @ \cup LoadIndexArtifacts]
    /\ rPc' = [rPc EXCEPT ![r] = "ensure"]
    /\ rStage' = [rStage EXCEPT ![r] = RawArtifact]
    /\ UNCHANGED <<rDlVer, rFetched, rFresh, rAged>>
    /\ UNCHANGED <<bucketVars, localFile, ttlVars>>
    /\ UNCHANGED notCacheVars

\* load_index, embed_query or index.search raises (a truncated or removed
\* file, or the embedding service)
LoadIndexFail(r) ==
    /\ rPc[r] = "parse"
    /\ Leave(r)
    /\ UNCHANGED <<bucketVars, localFile, ttlVars>>
    /\ UNCHANGED notCacheVars

\* the raw-text loop and the resolution of the hits: the contexts are built
LoadRaw(r) ==
    /\ rPc[r] = "parse_raw"
    /\ Loadable(RawArtifact)
    /\ rUsed' = [rUsed EXCEPT ![r][RawArtifact] = localFile[RawArtifact]]
    /\ rParsed' = [rParsed EXCEPT ![r] = @ \cup {RawArtifact}]
    /\ rPc' = [rPc EXCEPT ![r] = "done"]
    /\ loadFresh' = TRUE
    /\ UNCHANGED <<rStage, rDlVer, rFetched, rFresh, rAged>>
    /\ UNCHANGED <<bucketVars, localFile, agedBuild>>
    /\ UNCHANGED notCacheVars

\* reading corpus_chunks.jsonl raises (removed, or truncated inside a line)
LoadRawFail(r) ==
    /\ rPc[r] = "parse_raw"
    /\ ~localFile[RawArtifact].complete
    /\ Leave(r)
    /\ UNCHANGED <<bucketVars, localFile, ttlVars>>
    /\ UNCHANGED notCacheVars

\* return contexts
Return(r) ==
    /\ rPc[r] = "done"
    /\ Leave(r)
    /\ UNCHANGED <<bucketVars, localFile, ttlVars>>
    /\ UNCHANGED notCacheVars

\* Concurrent requests and rebuilds
NextCache ==
    \/ StartBuild
    \/ Upload
    \/ \E r \in Reqs : Call(r)
    \/ \E r \in Reqs : EnsureCached(r)
    \/ \E r \in Reqs : EnsureNoBlob(r)
    \/ \E r \in Reqs : EnsureMissing(r)
    \/ \E r \in Reqs : DownloadOpen(r)
    \/ \E r \in Reqs : DownloadDone(r)
    \/ \E r \in Reqs : DownloadFail(r)
    \/ \E r \in Reqs : LoadIndex(r)
    \/ \E r \in Reqs : LoadIndexFail(r)
    \/ \E r \in Reqs : LoadRaw(r)
    \/ \E r \in Reqs : LoadRawFail(r)
    \/ \E r \in Reqs : Return(r)

SpecCache == InitCache /\ [][NextCache]_vars

\* One request after the other, rebuilds, and the passage of time
SeqReqs == {1}

NextCacheTTL ==
    \/ StartBuild
    \/ Upload
    \/ TTLElapse
    \/ \E r \in SeqReqs : Call(r)
    \/ \E r \in SeqReqs : EnsureCached(r)
    \/ \E r \in SeqReqs : EnsureNoBlob(r)
    \/ \E r \in SeqReqs : EnsureMissing(r)
    \/ \E r \in SeqReqs : DownloadOpen(r)
    \/ \E r \in SeqReqs : DownloadDone(r)
    \/ \E r \in SeqReqs : DownloadFail(r)
    \/ \E r \in SeqReqs : LoadIndex(r)
    \/ \E r \in SeqReqs : LoadIndexFail(r)
    \/ \E r \in SeqReqs : LoadRaw(r)
    \/ \E r \in SeqReqs : LoadRawFail(r)
    \/ \E r \in SeqReqs : Return(r)

SpecCacheTTL == InitCache /\ [][NextCacheTTL]_vars

----------------------------------------------------------------------------
(* Claims about the artifact cache                                         *)

\* C6 (SpecCacheTTL): two retrieve calls within the TTL window use the same
\* loaded state: a call that begins less than one TTL after a load performs
\* no artifact fetch and no re-load of the index, the metadata or the raw text.
C6_NoFetchNoReloadWithinTTL ==
    \A r \in Reqs : rFresh[r] => rFetched[r] = {} /\ rParsed[r] = {}

\* C7 (SpecCacheTTL): a retrieve call made after the TTL has elapsed since
\* the last load re-fetches and re-parses all four artifacts exactly once
\* before it answers, so a build published at least one TTL before the call
\* is the oldest it can serve.
C7_RefetchAfterTTL ==
    \A r \in Reqs :
        rPc[r] = "done" /\ ~rFresh[r] =>
            /\ rFetched[r] = 1..NumArtifacts
            /\ rParsed[r] = 1..NumArtifacts
            /\ \A n \in 1..NumArtifacts : rUsed[r][n].ver >= rAged[r]

\* C8 (SpecCache): at most one load (fetch of an artifact) is in progress at
\* any time; concurrent callers wait instead of starting their own fetch.
C8_AtMostOneFetchInProgress ==
    Cardinality({r \in Reqs : rPc[r] \in {"open", "dl"}}) <= 1

\* C9 (SpecCache): the index, the metadata list and the raw-text file a
\* retrieve call uses all come from the same build.
C9_OneBuildPerCall ==
    \A r \in Reqs :
        rPc[r] = "done" =>
            /\ rUsed[r][2].ver = rUsed[r][3].ver
            /\ rUsed[r][3].ver = rUsed[r][RawArtifact].ver

\* C10 (SpecCache): a retrieve call never loads an artifact that is only
\* partially fetched, neither from a fetch in progress in another request
\* nor from a fetch that failed midway.
C10_NoPartialArtifactLoaded ==
    \A r \in Reqs : \A n \in rParsed[r] : rUsed[r][n].complete

----------------------------------------------------------------------------
(* model/pdf_ingest.py: _clean_pdf_text and _detect_source                 *)

TAB == "\t"
CR  == "\r"
Blank  == {SP, TAB}                                   \* regex [ \t]
Digits == {"0", "1", "2", "3", "4", "5", "6", "7", "8", "9"}       \* regex \d
UPPER  == <<"A", "B", "C", "D", "E", "F", "G", "H", "I", "J", "K", "L", "M",
            "N", "O", "P", "Q", "R", "S", "T", "U", "V", "W", "X", "Y", "Z">>
LOWER  == <<"a", "b", "c", "d", "e", "f", "g", "h", "i", "j", "k", "l", "m",
            "n", "o", "p", "q", "r", "s", "t", "u", "v", "w", "x", "y", "z">>
Letters == {UPPER[i] : i \in 1..26} \cup {LOWER[i] : i \in 1..26}
AlNum   == Letters \cup Digits                        \* regex [A-Za-z0-9]

\* the characters of s at the positions lo..hi where keep is TRUE, in order
RECURSIVE Pick(_, _, _, _)
Pick(s, keep, lo, hi) ==
    IF lo > hi THEN <<>>
    ELSE IF lo = hi THEN (IF keep[lo] THEN <<s[lo]>> ELSE <<>>)
    ELSE LET mid == (lo + hi) \div 2
         IN Pick(s, keep, lo, mid) \o Pick(s, keep, mid + 1, hi)

\* re.sub(r"...-\n...") scans left to right and a match consumes its last
\* character: position i starts a replaced match iff the pattern is there
\* and no replaced match starts at i - 3
RECURSIVE DehyphenAt(_, _)
DehyphenAt(t, i) ==
    /\ 1 <= i /\ i + 3 <= Len(t)
    /\ t[i] \in AlNum /\ t[i + 1] = "-" /\ t[i + 2] = NL /\ t[i + 3] \in AlNum
    /\ ~DehyphenAt(t, i - 3)

\* txt.replace("\r", "\n")
ReplaceCR(t) ==
    [i \in 1..Len(t) |-> IF t[i] = CR THEN NL ELSE t[i]] \o <<>>

\* re.sub(r"[ \t]+\n", "\n", t): a blank run that ends at a newline
BlanksBeforeNL(t) ==
    LET BeforeNL(i) ==
            LET k == First([j \in i..Len(t) |-> t[j] \notin Blank], i, Len(t))
            IN k # 0 /\ t[k] = NL
    IN Pick(t, [i \in 1..Len(t) |-> ~(t[i] \in Blank /\ BeforeNL(i))],
            1, Len(t))

\* the text with its runs of newlines left as they are
NewlineRunsKept(t) == t

\* re.sub(r"\n{3,}", "\n\n", t): the third and later newline of a run
NewlineRuns(t) ==
    Pick(t, [i \in 1..Len(t) |->
               ~(i >= 3 /\ t[i] = NL /\ t[i - 1] = NL /\ t[i - 2] = NL)],
         1, Len(t))

\* re.sub(r"(?m)([A-Za-z0-9])-\n([A-Za-z0-9])", r"\1\2", t)
Dehyphenate(t) ==
    Pick(t, [i \in 1..Len(t) |->
               ~(DehyphenAt(t, i - 1) \/ DehyphenAt(t, i - 2))],
         1, Len(t))

\* re.sub(r"[ \t]{2,}", "  ", t): a run of two or more blanks becomes two
\* spaces
BlankRuns(t) ==
    LET InRun(i) == /\ t[i] \in Blank
                    /\ \/ (i > 1 /\ t[i - 1] \in Blank)
                       \/ (i < Len(t) /\ t[i + 1] \in Blank)
    IN Pick([i \in 1..Len(t) |-> IF InRun(i) THEN SP ELSE t[i]],
            [i \in 1..Len(t) |->
               ~(i >= 3 /\ t[i] \in Blank /\ t[i - 1] \in Blank
                        /\ t[i - 2] \in Blank)],
            1, Len(t))

_clean_pdf_text(txt) ==
    BlankRuns(Dehyphenate(NewlineRuns(BlanksBeforeNL(ReplaceCR(txt)))))

\* str.lower()
Lower(s) ==
    [i \in 1..Len(s) |->
        IF \E k \in 1..26 : UPPER[k] = s[i]
        THEN LOWER[CHOOSE k \in 1..26 : UPPER[k] = s[i]] ELSE s[i]]

\* text.find(pat): the 0-based offset of the first occurrence, or -1
Find(text, pat) ==
    LET last == Len(text) - Len(pat) + 1
    IN First([i \in 1..last |-> \A j \in 1..Len(pat) : text[i + j - 1] = pat[j]],
             1, last) - 1

----------------------------------------------------------------------------
(* model/pdf_ingest.py: _detect_source                                     *)

fatf_signals == <<   \* the four FATF phrases
    <<"f", "i", "n", "a", "n", "c", "i", "a", "l", " ", "a", "c", "t", "i",
      "o", "n", " ", "t", "a", "s", "k", " ", "f", "o", "r", "c", "e">>,
    <<"f", "a", "t", "f", " ", "r", "e", "c", "o", "m", "m", "e", "n", "d",
      "a", "t", "i", "o", "n", "s">>,
    <<"i", "n", "t", "e", "r", "p", "r", "e", "t", "i", "v", "e", " ", "n",
      "o", "t", "e", "s", " ", "t", "o", " ", "t", "h", "e", " ", "f", "a",
      "t", "f", " ", "r", "e", "c", "o", "m", "m", "e", "n", "d", "a", "t",
      "i", "o", "n", "s">>,
    <<"m", "u", "t", "u", "a", "l", " ", "e", "v", "a", "l", "u", "a", "t",
      "i", "o", "n", "s", " ", "(", "f", "a", "t", "f">> >>

ofac_signals == <<   \* the four OFAC phrases
    <<"o", "f", "f", "i", "c", "e", " ", "o", "f", " ", "f", "o", "r", "e",
      "i", "g", "n", " ", "a", "s", "s", "e", "t", "s", " ", "c", "o", "n",
      "t", "r", "o", "l">>,
    <<"o", "f", "a", "c">>,
    <<"s", "a", "n", "c", "t", "i", "o", "n", "s", " ", "p", "r", "o", "g",
      "r", "a", "m", " ", "a", "n", "d", " ", "c", "o", "u", "n", "t", "r",
      "y", " ", "i", "n", "f", "o", "r", "m", "a", "t", "i", "o", "n">>,
    <<"f", "r", "e", "q", "u", "e", "n", "t", "l", "y", " ", "a", "s", "k",
      "e", "d", " ", "q", "u", "e", "s", "t", "i", "o", "n", "s">> >>

\* sum(1 for s in signals if s in t)
Hits(signals, t) ==
    Cardinality({k \in 1..Len(signals) : Find(t, signals[k]) >= 0})

\* _detect_source without the lower() of its first line
_detect_sourceCaseSensitive(text) ==
    IF Hits(fatf_signals, text) >= Hits(ofac_signals, text) THEN "fatf" ELSE "ofac"

_detect_source(text) ==
    LET t == Lower(text) \o <<>>
    IN IF Hits(fatf_signals, t) >= Hits(ofac_signals, t) THEN "fatf" ELSE "ofac"

----------------------------------------------------------------------------
(* The part of Python's re that the chunkers use. A pattern is a sequence  *)
(* of items matched left to right, backtracking in Python's order of       *)
(* preference. Offsets are 0-based as in Python: offset p lies before      *)
(* text[p + 1].                                                            *)

\* cs{lo,hi}, [^cs]{lo,hi} when neg, hi = -1 for no upper limit, lazy for {..}?
Rep(cs, neg, lo, hi, lazy) ==
    [t |-> "set", cs |-> cs, neg |-> neg, lo |-> lo, hi |-> hi, lazy |-> lazy]
Chr(c) == Rep({c}, FALSE, 1, 1, FALSE)           \* one literal character
WS0 == Rep(WS, FALSE, 0, -1, FALSE)              \* \s*
WS1 == Rep(WS, FALSE, 1, -1, FALSE)              \* \s+
Bol == [t |-> "bol"]                             \* ^ under (?m)
Eol == [t |-> "eol"]                             \* $ under (?m)
End == [t |-> "end"]                             \* $ without (?m)
WordB == [t |-> "wb"]                            \* \b
Mark(name) == [t |-> "mark", name |-> name]      \* where a named group starts or ends
Alt(alts) == [t |-> "alt", alts |-> alts]        \* a|b|..., (?:a)? as a|<empty>

\* the literal s; under (?i) each letter also matches in the other case
Lit(s, ignorecase) == <<[t |-> "lit", s |-> s, ignorecase |-> ignorecase]>>

Groups == {"num_s", "num_e", "header_s", "header_e"}
NoMatch == [ok |-> FALSE]

\* a way of matching a prefix of a pattern: where it ends, and its groups
Thread(pos, caps) == [pos |-> pos, caps |-> caps]

\* the sequences xs[lo], ..., xs[hi], concatenated
RECURSIVE Concat(_, _, _)
Concat(xs, lo, hi) ==
    IF lo > hi THEN <<>>
    ELSE IF lo = hi THEN xs[lo]
    ELSE LET mid == (lo + hi) \div 2
         IN Concat(xs, lo, mid) \o Concat(xs, mid + 1, hi)

\* the sequences in xs, concatenated
Flat(xs) == Then(xs, LAMBDA ys : Concat(ys, 1, Len(ys)))

\* the ways one item other than an alternation matches at offset pos, in
\* Python's order of preference
Try(it, text, pos, caps) ==
    LET n == Len(text)
        IsWord(p) == 1 <= p /\ p <= n /\ text[p] \in AlNum \cup {"_"}
        Here(ok) == IF ok THEN <<Thread(pos, caps)>> ELSE <<>>
    IN CASE it.t = "bol" -> Here(pos = 0 \/ text[pos] = NL)
         [] it.t = "eol" -> Here(pos = n \/ text[pos + 1] = NL)
         [] it.t = "end" -> Here(pos = n \/ (pos = n - 1 /\ text[n] = NL))
         [] it.t = "wb" -> Here(IsWord(pos) # IsWord(pos + 1))
         [] it.t = "lit" ->
              LET sub == SubSeq(text, pos + 1, pos + Len(it.s))
              IN IF /\ pos + Len(it.s) <= n
                    /\ \/ sub = it.s
                       \/ it.ignorecase /\ Lower(sub) = Lower(it.s)
                 THEN <<Thread(pos + Len(it.s), caps)>> ELSE <<>>
         [] it.t = "mark" -> <<Thread(pos, [caps EXCEPT ![it.name] = pos])>>
         [] it.t = "set" ->
              LET lim == IF it.hi < 0 THEN n ELSE Min(n, pos + it.hi)
                  In(c) == (c \in it.cs) # it.neg
                  k == First([i \in (pos + 1)..lim |-> ~In(text[i])], pos + 1, lim)
                  run == (IF k = 0 THEN lim ELSE k - 1) - pos
                  \* greedy: run, run - 1, ..., lo; lazy: lo, lo + 1, ..., run
                  Count(j) == IF it.lazy THEN it.lo + j - 1 ELSE run - j + 1
              IN IF run < it.lo THEN <<>>
                 ELSE [j \in 1..(run - it.lo + 1) |->
                          Thread(pos + Count(j), caps)] \o <<>>

\* the ways items[lo..hi] match from the ways in from, most preferred first:
\* the order in which Python's backtracking reaches them
RECURSIVE Threads(_, _, _, _, _)
Threads(items, lo, hi, text, from) ==
    IF from = <<>> \/ lo > hi THEN from
    ELSE IF lo < hi
    THEN LET mid == (lo + hi) \div 2
         IN Then(Threads(items, lo, mid, text, from),
                 LAMBDA ths : Threads(items, mid + 1, hi, text, ths))
    ELSE LET it == items[lo]
             After(th) ==
                 IF it.t = "alt"
                 THEN Flat([j \in 1..Len(it.alts) |->
                               Threads(it.alts[j], 1, Len(it.alts[j]), text,
                                       <<th>>)] \o <<>>)
                 ELSE Try(it, text, th.pos, th.caps)
         IN Flat([i \in 1..Len(from) |-> After(from[i])] \o <<>>)

\* the match of items at offset pos that Python finds first, if there is one
Match(items, text, pos, caps) ==
    LET Found(ths) ==
            IF ths = <<>> THEN NoMatch
            ELSE [ok |-> TRUE, end |-> ths[1].pos, caps |-> ths[1].caps]
    IN Found(Threads(items, 1, Len(items), text, <<Thread(pos, caps)>>))

\* pattern.search(text, from): the leftmost match starting at from or later
Search(items, text, from) ==
    LET caps0 == [g \in Groups |-> 0]
        Hit(start, m) ==
            [ok |-> TRUE, start |-> start, end |-> m.end, caps |-> m.caps]
        At(k) == IF k = 0 THEN NoMatch
                 ELSE Hit(k - 1, Match(items, text, k - 1, caps0))
    IN At(First([p \in (from + 1)..(Len(text) + 1) |->
                    Match(items, text, p - 1, caps0).ok],
                from + 1, Len(text) + 1))

\* list(pattern.finditer(text)) from offset from on; the patterns used here
\* match no empty string
RECURSIVE FindIter(_, _, _)
FindIter(items, text, from) ==
    LET From(m) == IF ~m.ok THEN <<>>
                   ELSE <<m>> \o FindIter(items, text, Max(m.end, m.start + 1))
    IN From(Search(items, text, from))

----------------------------------------------------------------------------
(* model/pdf_ingest.py: _slice_by_headers and _chunk_ofac_faq              *)

\* headers.sort(key=lambda x: x[0]): stable, by start offset
RECURSIVE SortByStart(_)
SortByStart(hs) ==
    IF Len(hs) <= 1 THEN hs
    ELSE LET h == hs[Len(hs)]
             sorted == SortByStart(SubSeq(hs, 1, Len(hs) - 1))
             k == Cardinality({i \in 1..Len(sorted) : sorted[i].s <= h.s})
         IN SubSeq(sorted, 1, k) \o <<h>> \o SubSeq(sorted, k + 1, Len(sorted))

\* headers are records [s, e, title] for the tuples (start, end, title)
_slice_by_headers(text, headers) ==
    LET hs == SortByStart(headers)
        Chunk(i) ==
            LET nxt == IF i + 1 <= Len(hs) THEN hs[i + 1].s ELSE Len(text)
                body == Strip(Slice(text, hs[i].e, nxt))
            IN Strip(hs[i].title \o <<NL, NL>> \o body)
        all == [i \in 1..Len(hs) |-> Chunk(i)] \o <<>>
    IN Pick(all, [i \in 1..Len(all) |-> all[i] # <<>>], 1, Len(all))

\* re.sub(r"\s+", " ", s)
CollapseWS(s) ==
    Pick([i \in 1..Len(s) |-> IF s[i] \in WS THEN SP ELSE s[i]],
         [i \in 1..Len(s) |-> ~(s[i] \in WS /\ i > 1 /\ s[i - 1] \in WS)],
         1, Len(s))

TITLE_CAP == 300     \* cap_end = min(len(window), 300)

\* r"(?m)^\s*(?P<num>\d{1,4})\.\s+"
header_start ==
    <<Bol, WS0, Mark("num_s"), Rep(Digits, FALSE, 1, 4, FALSE), Mark("num_e"),
      Chr("."), WS1>>
\* r"[??]": the ASCII question mark; the full-width one is outside the
\* alphabet of the texts
question_mark == <<Chr("?")>>
\* r"\n\s*\n"
blank_line == <<Chr(NL), WS0, Chr(NL)>>

_chunk_ofac_faq(text) ==
    LET Header(starts, idx) ==
            LET m == starts[idx]
                num == Slice(text, m.caps.num_s, m.caps.num_e)
                after_num == m.end
                s1 == IF idx + 1 <= Len(starts) THEN starts[idx + 1].start
                      ELSE Len(text)
                window == Slice(text, after_num, s1)
                cap_end == Min(Len(window), TITLE_CAP)
                HeadingEnd(qm, blank) ==
                    IF qm.ok THEN after_num + qm.end
                    ELSE IF blank.ok THEN after_num + blank.start
                    ELSE after_num + cap_end
                Title(title_clean) ==
                    IF title_clean # <<>>
                    THEN num \o <<".", SP>> \o title_clean
                    ELSE num \o <<".">>
                Tuple(heading_end) ==
                    [s |-> m.start, e |-> heading_end,
                     title |-> Title(Strip(CollapseWS(
                                   Slice(text, after_num, heading_end))))]
            IN Tuple(HeadingEnd(Search(question_mark, window, 0),
                                Search(blank_line, window, 0)))
        Headers(starts) ==
            [idx \in 1..Len(starts) |-> Header(starts, idx)] \o <<>>
    IN _slice_by_headers(text, Headers(FindIter(header_start, text, 0)))

----------------------------------------------------------------------------
(* model/pdf_ingest.py: FATF Recommendations and Interpretive Notes        *)

\* the words, each under (?i), with \s+ between them
RECURSIVE Phrase(_)
Phrase(words) ==
    IF Len(words) = 1 THEN Lit(words[1], TRUE)
    ELSE Lit(words[1], TRUE) \o <<WS1>> \o Phrase(Tail(words))

GENERAL_GLOSSARY ==
    <<"G", "E", "N", "E", "R", "A", "L", " ", "G", "L", "O", "S", "S", "A",
      "R", "Y">>

_truncate_at_general_glossary(text) ==
    LET idx == Find(text, GENERAL_GLOSSARY)
    IN IF idx # -1 THEN Slice(text, 0, idx) ELSE text

\* r"(?mi)^\s*INTERPRETIVE\s+NOTES\s+TO\s+THE\s+FATF\s+RECOMMENDATIONS\s*$"
_FATF_IN_BANNER ==
    <<Bol, WS0>>
    \o Phrase(<<<<"I", "N", "T", "E", "R", "P", "R", "E", "T", "I", "V", "E">>,
                <<"N", "O", "T", "E", "S">>,
                <<"T", "O">>, <<"T", "H", "E">>,
                <<"F", "A", "T", "F">>,
                <<"R", "E", "C", "O", "M", "M", "E", "N", "D", "A", "T", "I", "O",
          "N", "S">>>>)
    \o <<WS0, Eol>>

\* r"(?mi)^\s*1\.\s*Assessing\s+risks\s+and\s+applying\s+a\s+risk-?based\s+approach\s*\*?\s*$"
anchor_pat ==
    <<Bol, WS0, Chr("1"), Chr("."), WS0>>
    \o Phrase(<<<<"A", "s", "s", "e", "s", "s", "i", "n", "g">>,
                <<"r", "i", "s", "k", "s">>, <<"a", "n", "d">>,
                <<"a", "p", "p", "l", "y", "i", "n", "g">>, <<"a">>>>)
    \o <<WS1>> \o Lit(<<"r", "i", "s", "k">>, TRUE)
    \o <<Rep({"-"}, FALSE, 0, 1, FALSE)>> \o Lit(<<"b", "a", "s", "e", "d">>, TRUE)
    \o <<WS1>> \o Lit(<<"a", "p", "p", "r", "o", "a", "c", "h">>, TRUE)
    \o <<WS0, Rep({"*"}, FALSE, 0, 1, FALSE), WS0, Eol>>

\* (?P<num>[1-9]|[1-3]\d|40)
num_group ==
    <<Mark("num_s"),
      Alt(<< <<Rep(Digits \ {"0"}, FALSE, 1, 1, FALSE)>>,
             <<Rep({"1", "2", "3"}, FALSE, 1, 1, FALSE),
               Rep(Digits, FALSE, 1, 1, FALSE)>>,
             <<Chr("4"), Chr("0")>> >>),
      Mark("num_e")>>

\* r"(?m)^\s*(?P<num>[1-9]|[1-3]\d|40)\.\s+(?P<header>[^\n]*?)(?:\s*\*+)?\s*$"
rec_pat ==
    <<Bol, WS0>> \o num_group
    \o <<Chr("."), WS1, Mark("header_s"), Rep({NL}, TRUE, 0, -1, TRUE),
         Mark("header_e"),
         Alt(<< <<WS0, Rep({"*"}, FALSE, 1, -1, FALSE)>>, <<>> >>), WS0, Eol>>

\* r"\.\s*$"
trailing_dot == <<Chr("."), WS0, End>>

MIN_HEADER_LEN == 6      \* if len(header) < 6: continue

_chunk_fatf_recommendations(text0) ==
    LET Scope(text, in_banner) ==
            IF in_banner.ok THEN Slice(text, 0, in_banner.start) ELSE text
        Headers(rec_scope, anchor, post, ms) ==
            LET Header(m) == Strip(Slice(post, m.caps.header_s, m.caps.header_e))
                Kept(m) == /\ Len(Header(m)) >= MIN_HEADER_LEN
                           /\ ~Search(trailing_dot, Header(m), 0).ok
                heads == [i \in 1..Len(ms) |->
                            [s |-> anchor.start + ms[i].start,
                             e |-> anchor.start + ms[i].end,
                             title |-> Slice(post, ms[i].caps.num_s,
                                             ms[i].caps.num_e)
                                         \o <<".", SP>> \o Header(ms[i])]] \o <<>>
            IN _slice_by_headers(rec_scope,
                   Pick(heads, [i \in 1..Len(ms) |-> Kept(ms[i])], 1, Len(ms)))
        Post(rec_scope, anchor, post) ==
            Then(FindIter(rec_pat, post, 0),
                 LAMBDA ms : Headers(rec_scope, anchor, post, ms))
        Anchored(rec_scope, anchor) ==
            IF ~anchor.ok THEN <<>>
            ELSE Then(Slice(rec_scope, anchor.start, Len(rec_scope)),
                      LAMBDA post : Post(rec_scope, anchor, post))
        Scoped(rec_scope) ==
            Then(Search(anchor_pat, rec_scope, 0),
                 LAMBDA anchor : Anchored(rec_scope, anchor))
        Truncated(text) ==
            Then(Scope(text, Search(_FATF_IN_BANNER, text, 0)), Scoped)
    IN Then(_truncate_at_general_glossary(text0), Truncated)

IN_TITLE ==
    <<"I", "N", "T", "E", "R", "P", "R", "E", "T", "I", "V", "E", " ", "N",
      "O", "T", "E", " ", "T", "O", " ", "R", "E", "C", "O", "M", "M", "E",
      "N", "D", "A", "T", "I", "O", "N", " ">>

\* r"(?mi)^\s*INTERPRETIVE\s+NOTE\s+TO\s+RECOMMENDATION\s+(?P<num>[1-9]|[1-3]\d|40)\b.*$"
in_head ==
    <<Bol, WS0>>
    \o Phrase(<<<<"I", "N", "T", "E", "R", "P", "R", "E", "T", "I", "V", "E">>,
                <<"N", "O", "T", "E">>, <<"T", "O">>,
                <<"R", "E", "C", "O", "M", "M", "E", "N", "D", "A", "T", "I", "O",
          "N">>>>)
    \o <<WS1>> \o num_group
    \o <<WordB, Rep({NL}, TRUE, 0, -1, FALSE), Eol>>

_chunk_fatf_interpretive_notes(text0) ==
    LET Headers(text, start, tail, ms) ==
            _slice_by_headers(text,
                [i \in 1..Len(ms) |->
                    [s |-> start + ms[i].start,
                     e |-> start + ms[i].end,
                     title |-> IN_TITLE \o Slice(tail, ms[i].caps.num_s,
                                                 ms[i].caps.num_e)]] \o <<>>)
        Tail_(text, start, tail) ==
            Headers(text, start, tail, FindIter(in_head, tail, 0))
        Section(text, sec) ==
            IF ~sec.ok THEN <<>>
            ELSE Tail_(text, sec.end, Slice(text, sec.end, Len(text)))
        Truncated(text) == Section(text, Search(_FATF_IN_BANNER, text, 0))
    IN Truncated(_truncate_at_general_glossary(text0))

----------------------------------------------------------------------------
(* model/pdf_ingest.py: _fallback_chunks, chunk_text and main              *)

\* the while loop of _fallback_chunks, from offset start on
\* a window end that runs one character past start + size
FallbackEndLong(n, start, size) == Min(n, start + size + 1)

\* end = min(n, start + size)
FallbackEnd(n, start, size) == Min(n, start + size)

\* the next start without the test that it lies beyond start
FallbackAdvanceUnguarded(start, end, overlap) == end - overlap

\* start = end - overlap if end - overlap > start else end
FallbackAdvance(start, end, overlap) ==
    IF end - overlap > start THEN end - overlap ELSE end

\* overlap = max(0, min(overlap, size - 1))
ClampOverlap(overlap, size) == Max(0, Min(overlap, size - 1))

RECURSIVE FallbackLoop(_, _, _, _)
FallbackLoop(text, size, overlap, start) ==
    IF start >= Len(text) THEN <<>>
    ELSE LET end == FallbackEnd(Len(text), start, size)
         IN <<Slice(text, start, end)>>
              \o FallbackLoop(text, size, overlap,
                              FallbackAdvance(start, end, overlap))

_fallback_chunks(text, size, overlap) ==
    IF size <= 0 THEN <<>>
    ELSE FallbackLoop(text, size, ClampOverlap(overlap, size), 0)

\* config.py, scaled: CHUNK_MAX_SIZE is 15000 tokens, CHUNK_SIZE 1200 and
\* CHUNK_OVERLAP 150 characters there. As with 15000, a window of
\* WINDOW_FLOOR characters under a short title fits the budget of 100
\* tokens, and a fallback chunk of CHUNK_SIZE characters is far below it.
CHUNK_MAX_SIZE == 100
CHUNK_SIZE     == 40
CHUNK_OVERLAP  == 5

\* the lists in xs, concatenated (list.extend in a loop)
RECURSIVE Extend(_)
Extend(xs) == IF xs = <<>> THEN <<>> ELSE Head(xs) \o Extend(Tail(xs))

\* ch.split("\n", 1): <<first_line, rest>>, rest empty when there is no "\n"
SplitFirstLine(ch) ==
    LET k == First([i \in 1..Len(ch) |-> ch[i] = NL], 1, Len(ch))
    IN IF k = 0 THEN <<ch, <<>>>>
       ELSE <<SubSeq(ch, 1, k - 1), SubSeq(ch, k + 1, Len(ch))>>

FATF == <<"f", "a", "t", "f">>
OFAC == <<"o", "f", "a", "c">>

\* src = (source or _detect_source(cleaned)).lower(); source is <<>> for None
SourceOf(cleaned, source) ==
    Lower(IF source # <<>> THEN source
          ELSE IF _detect_source(cleaned) = "fatf" THEN FATF ELSE OFAC)

\* chunk_text with the FAQ grammar tried before the fallback when the FATF
\* passes return nothing
DispatchTryOther(cleaned, size, overlap, src) ==
    LET Result(chunks, calls) ==
            IF chunks # <<>> THEN [chunks |-> chunks, calls |-> calls]
            ELSE [chunks |-> _fallback_chunks(cleaned, size, overlap),
                  calls  |-> calls \o <<"_fallback_chunks">>]
        Second(chunks, calls) ==
            IF chunks # <<>> THEN [chunks |-> chunks, calls |-> calls]
            ELSE Result(_chunk_ofac_faq(cleaned), calls \o <<"_chunk_ofac_faq">>)
    IN IF src = FATF
       THEN Second(_chunk_fatf_recommendations(cleaned)
                     \o _chunk_fatf_interpretive_notes(cleaned),
                   <<"_chunk_fatf_recommendations",
                     "_chunk_fatf_interpretive_notes">>)
       ELSE Result(_chunk_ofac_faq(cleaned), <<"_chunk_ofac_faq">>)

\* the if/else on src: the chunks it leaves in chunks, and the chunkers it
\* called to get them
Dispatch(cleaned, size, overlap, src) ==
    LET Result(chunks, calls) ==
            IF chunks # <<>> THEN [chunks |-> chunks, calls |-> calls]
            ELSE [chunks |-> _fallback_chunks(cleaned, size, overlap),
                  calls  |-> calls \o <<"_fallback_chunks">>]
    IN IF src = FATF
       THEN Result(_chunk_fatf_recommendations(cleaned)
                     \o _chunk_fatf_interpretive_notes(cleaned),
                   <<"_chunk_fatf_recommendations",
                     "_chunk_fatf_interpretive_notes">>)
       ELSE Result(_chunk_ofac_faq(cleaned), <<"_chunk_ofac_faq">>)

\* one call of chunk_text: the list it returns (out) and the chunkers it
\* called (calls)
chunk_text_run(txt, size, overlap, source) ==
    LET Cleaned(cleaned) ==
            Dispatch(cleaned, size, overlap, SourceOf(cleaned, source))
        Safe(chunks) ==
            Extend([i \in 1..Len(chunks) |->
                      LET fr == SplitFirstLine(chunks[i])
                      IN _split_to_token_budget(Strip(fr[1]), Strip(fr[2]),
                                                CHUNK_MAX_SIZE)] \o <<>>)
        Again(c) ==
            IF _count_tokens(c) <= CHUNK_MAX_SIZE THEN <<c>>
            ELSE LET title == SplitFirstLine(c)[1]
                     after == SubSeq(c, Len(title) + 1, Len(c))
                     body == SubSeq(after, NLRun(after) + 1, Len(after))
                 IN _split_to_token_budget(title, body, CHUNK_MAX_SIZE)
        Final(safe_chunks) ==
            Extend([i \in 1..Len(safe_chunks) |-> Again(safe_chunks[i])] \o <<>>)
        \* each stage is computed once, in the order of the code
        Runs(dispatched) ==
            {[out |-> Final(safe_chunks), calls |-> dispatched.calls] :
                 safe_chunks \in {Safe(dispatched.chunks)}}
    IN CHOOSE run \in
          UNION {UNION {Runs(dispatched) : dispatched \in {Cleaned(cleaned)}} :
                   cleaned \in {_clean_pdf_text(txt)}} : TRUE

chunk_text(txt, size, overlap, source) ==
    chunk_text_run(txt, size, overlap, source).out

\* the records main writes for one object of the bucket
RecordsOf(key, chunks) ==
    [i \in 1..Len(chunks) |-> [doc |-> key, chunk_id |-> i - 1, text |-> chunks[i]]]

----------------------------------------------------------------------------
(* Documents: a few lines and paragraphs in a row. LongWord stands for a   *)
(* run of text without a break, longer than the token budget allows for a  *)
(* title next to the smallest window.                                      *)

MaxBlocks   == 3       \* blocks per document
LongWordLen == 120     \* characters of an unbroken run

LongWord == [i \in 1..LongWordLen |-> "a"]

DocBlocks == {
    \* an OFAC signal phrase
    <<"o", "f", "a", "c", "\n">>,
    \* a numbered question that runs on
    <<"1", ".", " ">> \o LongWord \o <<"?", NL>>,
    \* body text: an unbroken run, and two sentences that end a paragraph
    LongWord \o LongWord \o <<NL>>,
    <<"S", "o", "m", "e", " ", "t", "e", "x", "t", ".", " ", "M", "o", "r",
      "e", " ", "t", "e", "x", "t", ".", "\n", "\n">>,
    \* the FATF anchor; the Interpretive Notes banner with one note heading
    <<"1", ".", " ", "A", "s", "s", "e", "s", "s", "i", "n", "g", " ", "r",
      "i", "s", "k", "s", " ", "a", "n", "d", " ", "a", "p", "p", "l", "y",
      "i", "n", "g", " ", "a", " ", "r", "i", "s", "k", "-", "b", "a", "s",
      "e", "d", " ", "a", "p", "p", "r", "o", "a", "c", "h", " ", "*", "\n">>,
    <<"I", "N", "T", "E", "R", "P", "R", "E", "T", "I", "V", "E", " ", "N",
      "O", "T", "E", "S", " ", "T", "O", " ", "T", "H", "E", " ", "F", "A",
      "T", "F", " ", "R", "E", "C", "O", "M", "M", "E", "N", "D", "A", "T",
      "I", "O", "N", "S", "\n", "I", "N", "T", "E", "R", "P", "R", "E", "T",
      "I", "V", "E", " ", "N", "O", "T", "E", " ", "T", "O", " ", "R", "E",
      "C", "O", "M", "M", "E", "N", "D", "A", "T", "I", "O", "N", " ", "1",
      "\n">>,
    <<NL>> }

\* (size, overlap) of a direct call: the defaults of main, and a size
\* beyond the ceiling without overlap
ChunkWindows == {<<CHUNK_SIZE, CHUNK_OVERLAP>>, <<10 * CHUNK_SIZE, 0>>}
ChunkSources == {<<>>, <<"o", "f", "a", "c">>, <<"F", "A", "T", "F">>}
DocKey == <<"k">>

InitChunk ==
    /\ chunkTxt \in Texts(DocBlocks, MaxBlocks)
    /\ chunkArgs = <<>>
    /\ chunkOut = <<>>
    /\ chunkRecords = <<>>
    /\ chunkRan = <<>>
    /\ chunkPc = "call"
    /\ OnlyChunk

\* chunk_text called with arguments of the caller's choice
CallChunkText ==
    /\ chunkPc = "call"
    /\ \E w \in ChunkWindows, source \in ChunkSources :
          /\ chunkArgs' = [size |-> w[1], overlap |-> w[2], source |-> source]
          /\ \E run \in {chunk_text_run(chunkTxt, w[1], w[2], source)} :
                /\ chunkOut' = run.out
                /\ chunkRan' = run.calls
    /\ chunkPc' = "called"
    /\ UNCHANGED <<chunkTxt, chunkRecords>>
    /\ UNCHANGED notChunkVars

\* main: if not text.strip(): continue
MainSkip ==
    /\ chunkPc = "call"
    /\ Strip(chunkTxt) = <<>>
    /\ chunkPc' = "skipped"
    /\ UNCHANGED <<chunkTxt, chunkArgs, chunkOut, chunkRecords, chunkRan>>
    /\ UNCHANGED notChunkVars

\* main: chunk_text(text, CHUNK_SIZE, CHUNK_OVERLAP) and one record per chunk
MainWrite ==
    /\ chunkPc = "call"
    /\ Strip(chunkTxt) # <<>>
    /\ chunkArgs' = [size |-> CHUNK_SIZE, overlap |-> CHUNK_OVERLAP, source |-> <<>>]
    /\ \E run \in {chunk_text_run(chunkTxt, CHUNK_SIZE, CHUNK_OVERLAP, <<>>)} :
          /\ chunkOut' = run.out
          /\ chunkRan' = run.calls
          /\ chunkRecords' = RecordsOf(DocKey, run.out)
    /\ chunkPc' = "written"
    /\ UNCHANGED chunkTxt
    /\ UNCHANGED notChunkVars

NextChunk ==
    \/ CallChunkText
    \/ MainSkip
    \/ MainWrite

SpecChunk == InitChunk /\ [][NextChunk]_vars

----------------------------------------------------------------------------
(* Claims about chunk_text, checked under SpecChunk                        *)

\* C2: for every input text and every size, overlap and source argument,
\* every passage chunk_text returns has _count_tokens(passage) <=
\* CHUNK_MAX_SIZE, so every record main writes to corpus_chunks.jsonl
\* respects the token ceiling.
C2_PassagesWithinCeiling ==
    /\ chunkPc \in {"called", "written"} =>
          \A i \in 1..Len(chunkOut) : _count_tokens(chunkOut[i]) <= CHUNK_MAX_SIZE
    /\ chunkPc = "written" =>
          \A i \in 1..Len(chunkRecords) :
              _count_tokens(chunkRecords[i].text) <= CHUNK_MAX_SIZE

----------------------------------------------------------------------------
(* Direct calls of the functions of model/pdf_ingest.py: the text argument *)
(* is in chunkTxt, the other arguments in chunkArgs, the value returned in *)
(* chunkOut.                                                               *)

InitCall(texts, args) ==
    /\ chunkTxt \in texts
    /\ chunkArgs \in args
    /\ chunkOut = <<>>
    /\ chunkRecords = <<>>
    /\ chunkRan = <<>>
    /\ chunkPc = "call"
    /\ OnlyChunk

\* what a direct call leaves alone
callFrame == <<chunkTxt, chunkArgs, chunkRecords, chunkRan, notChunkVars>>

----------------------------------------------------------------------------
(* _chunk_ofac_faq on short texts of digits, periods, blanks and newlines   *)

MaxOfacLen == 7      \* characters of a text

OfacChars == {<<"1">>, <<".">>, <<NL>>, <<SP>>, <<"a">>}

InitOfac == InitCall(Texts(OfacChars, MaxOfacLen), {<<>>})

CallOfac ==
    /\ chunkPc = "call"
    /\ chunkOut' = _chunk_ofac_faq(chunkTxt)
    /\ chunkPc' = "ofac"
    /\ UNCHANGED callFrame

NextOfac == CallOfac

SpecOfac == InitOfac /\ [][NextOfac]_vars

\* an anchor line starts at offset p: a line start, spaces or tabs, 1 to 4
\* digits, a period and a whitespace character
AnchorLineAt(text, p) ==
    /\ p = 0 \/ text[p] = NL
    /\ \E q \in p..Len(text) : \E d \in 1..4 :
          /\ \A i \in (p + 1)..q : text[i] \in Blank
          /\ q + d + 2 <= Len(text)
          /\ \A i \in (q + 1)..(q + d) : text[i] \in Digits
          /\ text[q + d + 1] = "."
          /\ text[q + d + 2] \in WS

AnchorLines(text) == {p \in 0..(Len(text) - 1) : AnchorLineAt(text, p)}

\* the number of the anchor line at offset p
AnchorNum(text, p) ==
    LET line == SubSeq(text, p + 1, Len(text))
        q == First([i \in 1..Len(line) |-> line[i] \notin Blank], 1, Len(line))
        e == First([i \in q..Len(line) |-> line[i] \notin Digits], q, Len(line))
    IN SubSeq(line, q, e - 1)

\* the offset of the i-th anchor line, in document order
NthAnchor(text, i) ==
    CHOOSE p \in AnchorLines(text) :
        Cardinality({q \in AnchorLines(text) : q < p}) = i - 1

StartsWith(s, prefix) ==
    Len(prefix) <= Len(s) /\ SubSeq(s, 1, Len(prefix)) = prefix

\* C12: for a text containing n >= 1 anchor lines (line start, optional
\* whitespace, 1 to 4 digits, a period, whitespace), _chunk_ofac_faq returns
\* exactly n passages in document order, the i-th passage beginning with the
\* i-th anchor's number followed by a period; for a text with no anchor line
\* it returns the empty list.
C12_OnePassagePerAnchorLine ==
    chunkPc = "ofac" =>
        /\ Len(chunkOut) = Cardinality(AnchorLines(chunkTxt))
        /\ \A i \in 1..Len(chunkOut) :
              StartsWith(chunkOut[i],
                         AnchorNum(chunkTxt, NthAnchor(chunkTxt, i)) \o <<".">>)

----------------------------------------------------------------------------
(* chunk_text and main on short documents: lines that carry a signal       *)
(* phrase or an anchor of one grammar or the other, and a gap of blanks    *)
(* wider than a fallback window                                            *)

MaxDispatchBlocks == 2     \* blocks per document
GapLen == 80               \* blanks in a row, two windows of CHUNK_SIZE

DispatchBlocks == {
    <<"o", "f", "a", "c", NL>>,
    <<"1", ".", " ", "a", " ", "b", "?", NL>>,
    <<"f", "a", "t", "f", " ", "r", "e", "c", "o", "m", "m", "e", "n", "d",
      "a", "t", "i", "o", "n", "s", NL>>,
    <<"1", ".", " ", "A", "s", "s", "e", "s", "s", "i", "n", "g", " ", "r",
      "i", "s", "k", "s", " ", "a", "n", "d", " ", "a", "p", "p", "l", "y",
      "i", "n", "g", " ", "a", " ", "r", "i", "s", "k", "-", "b", "a", "s",
      "e", "d", " ", "a", "p", "p", "r", "o", "a", "c", "h", NL>>,
    [i \in 1..GapLen |-> SP] \o <<"x", NL>> }

InitDispatch == InitCall(Texts(DispatchBlocks, MaxDispatchBlocks), {<<>>})

SpecDispatch == InitDispatch /\ [][NextChunk]_vars

\* C13: chunk_text runs only the grammar selected by the source (given, or
\* else classified): the recommendation and interpretive-note passes when it
\* is 'fatf', the FAQ grammar for every other value; the fixed-window
\* fallback is used if and only if that grammar yields zero passages, and the
\* other grammar is never run.
C13_OnlySelectedGrammarRuns ==
    chunkPc \in {"called", "written"} =>
        LET Holds(cleaned, selected) ==
                LET Ran(grammar, passages) ==
                        chunkRan = grammar \o (IF passages = <<>>
                                               THEN <<"_fallback_chunks">>
                                               ELSE <<>>)
                IN IF selected = FATF
                   THEN Ran(<<"_chunk_fatf_recommendations",
                              "_chunk_fatf_interpretive_notes">>,
                            _chunk_fatf_recommendations(cleaned)
                              \o _chunk_fatf_interpretive_notes(cleaned))
                   ELSE Ran(<<"_chunk_ofac_faq">>, _chunk_ofac_faq(cleaned))
            Selected(cleaned) ==
                Holds(cleaned,
                      IF chunkArgs.source # <<>> THEN Lower(chunkArgs.source)
                      ELSE IF _detect_source(cleaned) = "fatf" THEN FATF
                      ELSE OFAC)
        IN \A cleaned \in {_clean_pdf_text(chunkTxt)} : Selected(cleaned)

\* C13 witness: a call with source FATF on a document the FAQ grammar would
\* chunk, where the FATF passes found nothing and the fallback ran
C13_Witness ==
    /\ chunkPc = "called"
    /\ chunkArgs.source = <<"F", "A", "T", "F">>
    /\ chunkRan = <<"_chunk_fatf_recommendations",
                    "_chunk_fatf_interpretive_notes", "_fallback_chunks">>
    /\ _chunk_ofac_faq(_clean_pdf_text(chunkTxt)) # <<>>

----------------------------------------------------------------------------
(* _detect_source on texts that carry signal phrases in either letter case *)

MaxDetectBlocks == 3     \* blocks of a text

DetectBlocks == {
    <<"o", "f", "a", "c", " ">>,
    <<"O", "F", "A", "C", " ">>,
    <<"F", "r", "e", "q", "u", "e", "n", "t", "l", "y", " ", "A", "s", "k",
      "e", "d", " ", "Q", "u", "e", "s", "t", "i", "o", "n", "s", " ">>,
    <<"f", "a", "t", "f", " ", "r", "e", "c", "o", "m", "m", "e", "n", "d",
      "a", "t", "i", "o", "n", "s", " ">>,
    <<"F", "A", "T", "F", " ", "R", "e", "c", "o", "m", "m", "e", "n", "d",
      "a", "t", "i", "o", "n", "s", " ">>,
    <<"F", "i", "n", "a", "n", "c", "i", "a", "l", " ", "A", "c", "t", "i",
      "o", "n", " ", "T", "a", "s", "k", " ", "F", "o", "r", "c", "e", " ">>,
    <<"I", "n", "t", "e", "r", "p", "r", "e", "t", "i", "v", "e", " ", "N",
      "o", "t", "e", "s", " ", "t", "o", " ", "t", "h", "e", " ", "F", "A",
      "T", "F", " ", "R", "e", "c", "o", "m", "m", "e", "n", "d", "a", "t",
      "i", "o", "n", "s", " ">>,
    <<"x", " ">> }

InitDetect == InitCall(Texts(DetectBlocks, MaxDetectBlocks), {<<>>})

CallDetect ==
    /\ chunkPc = "call"
    /\ chunkOut' = _detect_source(chunkTxt)
    /\ chunkPc' = "detected"
    /\ UNCHANGED callFrame

NextDetect == CallDetect

SpecDetect == InitDetect /\ [][NextDetect]_vars

\* the two characters are the same letter in either case, or the same character
SameLetter(c, d) ==
    \/ c = d
    \/ \E k \in 1..26 : {c, d} = {UPPER[k], LOWER[k]}

\* the phrase occurs in the text, letter case ignored
Occurs(phrase, text) ==
    \E i \in 1..(Len(text) - Len(phrase) + 1) :
        \A j \in 1..Len(phrase) : SameLetter(text[i + j - 1], phrase[j])

\* the number of the phrases that occur in the text, letter case ignored
SignalCount(phrases, text) ==
    Cardinality({k \in 1..Len(phrases) : Occurs(phrases[k], text)})

\* C14: _detect_source returns "fatf" only when the FATF signals strictly
\* outnumber the OFAC signals; a tie, the tie of no signal at all included,
\* gives "ofac"
C14_FatfOnlyOnStrictMajority ==
    chunkPc = "detected" =>
        (chunkOut = "fatf" <=>
            SignalCount(fatf_signals, chunkTxt) > SignalCount(ofac_signals, chunkTxt))

\* C15: a text with more OFAC signals than FATF signals is classified "ofac"
\* and one with more FATF signals than OFAC signals "fatf", whatever the
\* letter case the phrases are written in
C15_MajorityDecidesInAnyCase ==
    chunkPc = "detected" =>
        LET ofac_hits == SignalCount(ofac_signals, chunkTxt)
            fatf_hits == SignalCount(fatf_signals, chunkTxt)
        IN /\ ofac_hits > fatf_hits => chunkOut = "ofac"
           /\ fatf_hits > ofac_hits => chunkOut = "fatf"

\* a text in capitals and mixed case with two OFAC signals against one FATF
\* signal has been classified
C15_Witness ==
    /\ chunkPc = "detected"
    /\ chunkTxt # Lower(chunkTxt)
    /\ SignalCount(ofac_signals, chunkTxt) = 2
    /\ SignalCount(fatf_signals, chunkTxt) = 1
    /\ SignalCount(ofac_signals, Lower(chunkTxt)) # Hits(ofac_signals, chunkTxt)
    /\ chunkOut = "ofac"

----------------------------------------------------------------------------
(* _fallback_chunks, its while loop taken one iteration per step            *)

MaxFbLen  == 5     \* characters of the text
MaxFbSize == 3     \* size runs from -1 to MaxFbSize, overlap to MaxFbSize + 1

FbChars == {<<"a">>, <<SP>>}

InitFb ==
    /\ fbText \in Texts(FbChars, MaxFbLen)
    /\ fbArgs \in (-1..MaxFbSize) \X (-2..(MaxFbSize + 1))
    /\ fbOverlap = 0
    /\ fbStart = 0
    /\ fbChunks = <<>>
    /\ fbPc = "call"
    /\ OnlyFb

\* chunks = []; n = len(text); if size <= 0: return chunks
FallbackReturnEmpty ==
    /\ fbPc = "call"
    /\ fbArgs[1] <= 0
    /\ fbPc' = "done"
    /\ UNCHANGED <<fbText, fbArgs, fbOverlap, fbStart, fbChunks>>
    /\ UNCHANGED notFbVars

\* overlap = max(0, min(overlap, size - 1)); start = 0
FallbackEnter ==
    /\ fbPc = "call"
    /\ fbArgs[1] > 0
    /\ fbOverlap' = ClampOverlap(fbArgs[2], fbArgs[1])
    /\ fbStart' = 0
    /\ fbPc' = "loop"
    /\ UNCHANGED <<fbText, fbArgs, fbChunks>>
    /\ UNCHANGED notFbVars

\* one pass through the body of while start < n; the text bounds the
\* number of passes the model follows
FallbackIter ==
    /\ fbPc = "loop"
    /\ fbStart < Len(fbText)
    /\ Len(fbChunks) <= Len(fbText)
    /\ LET end == FallbackEnd(Len(fbText), fbStart, fbArgs[1])
       IN /\ fbChunks' = Append(fbChunks, Slice(fbText, fbStart, end))
          /\ fbStart' = FallbackAdvance(fbStart, end, fbOverlap)
    /\ UNCHANGED <<fbText, fbArgs, fbOverlap, fbPc>>
    /\ UNCHANGED notFbVars

\* the test start < n fails: return chunks
FallbackReturn ==
    /\ fbPc = "loop"
    /\ ~(fbStart < Len(fbText))
    /\ fbPc' = "done"
    /\ UNCHANGED <<fbText, fbArgs, fbOverlap, fbStart, fbChunks>>
    /\ UNCHANGED notFbVars

NextFb == FallbackReturnEmpty \/ FallbackEnter \/ FallbackIter \/ FallbackReturn

SpecFb == InitFb /\ [][NextFb]_vars

\* the interpreter runs the loop to its end
SpecFbFair == SpecFb /\ WF_vars(NextFb)

\* the loop, run step by step, returns what the function returns
FbStepsAgree ==
    fbPc = "done" => fbChunks = _fallback_chunks(fbText, fbArgs[1], fbArgs[2])

\* C16: _fallback_chunks returns no chunk when size <= 0; when size > 0 every
\* chunk it returns is non-empty and at most size characters long, for every
\* text and every integer overlap
C16_ChunksNonEmptyWithinSize ==
    fbPc = "done" =>
        /\ fbArgs[1] <= 0 => fbChunks = <<>>
        /\ fbArgs[1] > 0 =>
              \A k \in 1..Len(fbChunks) :
                  /\ fbChunks[k] # <<>>
                  /\ Len(fbChunks[k]) <= fbArgs[1]

\* a text longer than size has been cut into full windows and a shorter
\* last one, with an overlap beyond size
C16_Witness ==
    /\ fbPc = "done"
    /\ fbArgs[1] = 2 /\ fbArgs[2] > fbArgs[1]
    /\ Len(fbText) = 4
    /\ Len(fbChunks) = 4
    /\ Len(fbChunks[1]) = 2 /\ Len(fbChunks[4]) = 1

\* C17: every iteration of the loop of _fallback_chunks moves the window
\* start strictly forward, so the loop ends, after at most len(text) windows;
\* this holds for a negative overlap, for overlap = size - 1 and for
\* overlap >= size
C17_StartAdvancesLoopEnds ==
    /\ [][fbChunks' # fbChunks => fbStart' > fbStart]_vars
    /\ [](Len(fbChunks) <= Len(fbText))
    /\ <>(fbPc = "done")

\* with overlap = size - 1 the start moved one character at a time and the
\* loop ended after len(text) windows
C17_Witness ==
    /\ fbPc = "done"
    /\ fbArgs[1] = 2 /\ fbArgs[2] = 1
    /\ Len(fbText) = MaxFbLen
    /\ Len(fbChunks) = Len(fbText)
    /\ fbStart = Len(fbText)

----------------------------------------------------------------------------
(* _window_split, its two while loops taken one iteration per step          *)

MaxWinLen == 1200     \* characters of the longest text

WinLens == {0, 1, 250, 900, MaxWinLen}

WinTitles == {<<>>, <<"T">>, [k \in 1..12 |-> "T"]}

\* unbroken texts, blank texts, and texts that open with a run of blanks
WinTexts ==
    {[k \in 1..n |-> "a"] : n \in WinLens}
        \cup {[k \in 1..n |-> SP] : n \in WinLens}
        \cup {[k \in 1..n |-> IF k <= 900 THEN SP ELSE "a"] : n \in WinLens}

WinBudgets == {1, 3, 100, 400}

InitWin ==
    /\ winTitle \in WinTitles
    /\ winText \in WinTexts
    /\ winMax \in WinBudgets
    /\ winChars = 0
    /\ winI = 0
    /\ winPiece = <<>>
    /\ winParts = <<>>
    /\ winPc = "call"
    /\ OnlyWin

winArgs == <<winTitle, winText, winMax>>

\* title_tok, budget, window_chars; parts, i, n = [], 0, len(text)
WindowEnter ==
    /\ winPc = "call"
    /\ winChars' = InitialWindow(winTitle, winMax)
    /\ winPc' = "outer"
    /\ UNCHANGED <<winArgs, winI, winPiece, winParts>>
    /\ UNCHANGED notWinVars

\* while i < n: j = min(n, i + window_chars); piece = ...
WindowPiece ==
    /\ winPc = "outer"
    /\ winI < Len(winText)
    /\ winPiece' = Piece(winTitle, winText, winI,
                         Min(Len(winText), winI + winChars))
    /\ winPc' = "inner"
    /\ UNCHANGED <<winArgs, winChars, winI, winParts>>
    /\ UNCHANGED notWinVars

\* one pass through the body of the inner while
WindowShrinkStep ==
    /\ winPc = "inner"
    /\ ShrinkAgain(winPiece, winMax, winChars)
    /\ winChars' = Shrunk(winChars)
    /\ winPiece' = Piece(winTitle, winText, winI, winI + Shrunk(winChars))
    /\ UNCHANGED <<winArgs, winI, winParts, winPc>>
    /\ UNCHANGED notWinVars

\* the inner test fails: parts.append(piece); i += window_chars
WindowAppend ==
    /\ winPc = "inner"
    /\ ~ShrinkAgain(winPiece, winMax, winChars)
    /\ winParts' = Append(winParts, winPiece)
    /\ winI' = winI + winChars
    /\ winPc' = "outer"
    /\ UNCHANGED <<winArgs, winChars, winPiece>>
    /\ UNCHANGED notWinVars

\* the test i < n fails: return parts
WindowReturn ==
    /\ winPc = "outer"
    /\ ~(winI < Len(winText))
    /\ winPc' = "done"
    /\ UNCHANGED <<winArgs, winChars, winI, winPiece, winParts>>
    /\ UNCHANGED notWinVars

NextWin ==
    WindowEnter \/ WindowPiece \/ WindowShrinkStep \/ WindowAppend \/ WindowReturn

SpecWin == InitWin /\ [][NextWin]_vars

\* the interpreter runs the loops to their end
SpecWinFair == SpecWin /\ WF_vars(NextWin)

\* the loops, run step by step, return what the function returns
WinStepsAgree ==
    winPc = "done" => winParts = _window_split(winTitle, winText, winMax)

\* C18: _window_split, and with it _split_to_token_budget, terminates for
\* every title, text and max_tokens: each pass of the shrinking loop makes the
\* window smaller but leaves it positive, each window appended moves the
\* position forward, and the call returns
C18_WindowLoopsEnd ==
    /\ [][winPc = "inner" /\ winChars' # winChars
            => winChars' < winChars /\ winChars' > 0]_vars
    /\ [][winParts' # winParts => winI' > winI]_vars
    /\ [](winPc \in {"outer", "inner"} => winChars > 0)
    /\ <>(winPc = "done")

\* a title that alone exceeds the budget: the window shrank to its floor and
\* the text was still cut into several windows
C18_Witness ==
    /\ winPc = "done"
    /\ _count_tokens(winTitle) > winMax
    /\ winChars <= WINDOW_FLOOR
    /\ Len(winText) = MaxWinLen
    /\ Len(winParts) > 2

----------------------------------------------------------------------------
(* chunk_text with windows of a few characters, on texts with blank gaps    *)

MaxGapFrags == 5     \* fragments of a text

GapFrags == {<<"a">>, <<SP>>, <<NL>>, OFAC}

\* (size, overlap) of the call
GapWindows == {<<2, 0>>, <<3, 1>>}

InitGap == InitCall(Texts(GapFrags, MaxGapFrags), {<<>>})

CallSmallWindow ==
    /\ chunkPc = "call"
    /\ \E w \in GapWindows :
          /\ chunkArgs' = [size |-> w[1], overlap |-> w[2], source |-> <<>>]
          /\ \E run \in {chunk_text_run(chunkTxt, w[1], w[2], <<>>)} :
                /\ chunkOut' = run.out
                /\ chunkRan' = run.calls
    /\ chunkPc' = "called"
    /\ UNCHANGED <<chunkTxt, chunkRecords>>
    /\ UNCHANGED notChunkVars

NextGap == CallSmallWindow

SpecGap == InitGap /\ [][NextGap]_vars

\* C19: every passage chunk_text returns is a non-empty string, also when a
\* fallback window or a header slice holds nothing but whitespace
C19_PassagesNonEmpty ==
    chunkPc = "called" => \A i \in 1..Len(chunkOut) : chunkOut[i] # <<>>

----------------------------------------------------------------------------
(* _clean_pdf_text on short texts of letters, hyphens, blanks and line ends *)

MaxCleanLen == 5     \* characters of a text

CleanChars == {<<"a">>, <<"-">>, <<NL>>, <<SP>>, <<TAB>>, <<CR>>}

InitClean == InitCall(Texts(CleanChars, MaxCleanLen), {<<>>})

CallClean ==
    /\ chunkPc = "call"
    /\ chunkOut' = _clean_pdf_text(chunkTxt)
    /\ chunkPc' = "cleaned"
    /\ UNCHANGED callFrame

NextClean == CallClean

SpecClean == InitClean /\ [][NextClean]_vars

\* C20: the text _clean_pdf_text returns holds no carriage return, no space
\* or tab immediately before a newline, and no three newlines in a row
C20_CleanedTextShape ==
    chunkPc = "cleaned" =>
        \A i \in 1..Len(chunkOut) :
            /\ chunkOut[i] # CR
            /\ ~(chunkOut[i] \in Blank /\ i < Len(chunkOut) /\ chunkOut[i + 1] = NL)
            /\ ~(i + 2 <= Len(chunkOut) /\ chunkOut[i] = NL
                    /\ chunkOut[i + 1] = NL /\ chunkOut[i + 2] = NL)

\* a text with a carriage return and blanks before newlines, whose newlines
\* form a run of four once the blanks are gone, has been cleaned
C20_Witness ==
    /\ chunkPc = "cleaned"
    /\ chunkTxt = <<SP, CR, TAB, NL, NL>>
    /\ chunkOut = <<NL, NL>>

----------------------------------------------------------------------------
(* search_index, the ADK tool of app/backend/main.py (lines 206-209) and   *)
(* of app/query.py (lines 62-71): clamp top_k, then call retrieve.         *)

BACKEND == "app/backend/main.py"
QUERY   == "app/query.py"
ToolModules == {BACKEND, QUERY}

\* the upper limit each module writes in its min(...)
TopKCap(module) == IF module = BACKEND THEN 15 ELSE 10

\* int(top_k or 5): 0 is falsy, every other integer stands for itself
OrFive(top_k) == IF top_k = 0 THEN 5 ELSE top_k

\* min(int(top_k or 5), cap), the floor of 1 left out
ClampedTopKNoFloor(module, top_k) == Min(OrFive(top_k), TopKCap(module))

\* top_k = max(1, min(int(top_k or 5), cap))
ClampedTopK(module, top_k) == Max(1, Min(OrFive(top_k), TopKCap(module)))

MaxTopK == 17        \* top_k ranges over -MaxTopK..MaxTopK

InitSearch ==
    /\ \E n \in 1..MaxVecs, j \in 0..MaxVecs :
       \E texts \in [1..n -> PassageTexts], kept \in SUBSET (1..n) :
          LET c == CorpusOf(texts, Min(j, n)) IN
          /\ qNTotal = n
          /\ qMeta = [i \in 1..n |-> MetaOf(c[i])]
          /\ qRaw = SelectPositions(c, kept)
    /\ qK = 0
    /\ qIdxs = <<>> /\ qContexts = <<>>
    /\ qPc = "call"
    /\ toolModule \in ToolModules
    /\ toolTopK \in (-MaxTopK)..MaxTopK
    /\ ParkedPipeline /\ ParkedRow /\ ParkedAuth

\* search_index(query, top_k): return retrieve(query, k=top_k) with the
\* clamped top_k
search_index ==
    /\ qPc = "call"
    /\ toolModule \in ToolModules
    /\ LET k == ClampedTopK(toolModule, toolTopK) IN
       /\ qK' = k
       /\ \E idxs \in SearchResults(qNTotal, k) :
            /\ qIdxs' = idxs
            /\ IF \A p \in 1..Len(idxs) : PyInRange(qMeta, idxs[p])
               THEN qContexts' = Contexts(qMeta, qRaw, idxs) /\ qPc' = "done"
               ELSE qContexts' = <<>> /\ qPc' = "raised"     \* IndexError
    /\ UNCHANGED <<qMeta, qNTotal, qRaw>>
    /\ UNCHANGED notQueryVars

NextSearch == search_index

SpecSearch == InitSearch /\ [][NextSearch]_vars

\* C21: whatever integer top_k search_index receives (0, negative, above
\* 15), the k it passes to retrieve lies in 1..15.
C21_KWithinOneToFifteen ==
    qPc # "call" => qK \in 1..15

\* C21 witness: the three cases the clamp is for have gone through the tool,
\* here a negative top_k that reached retrieve as k = 1
C21_Witness ==
    /\ qPc # "call"
    /\ toolTopK < 0
    /\ qK = 1
    /\ Len(qIdxs) = 1

----------------------------------------------------------------------------
(* model/generate_tuning_data.py: normalize_row (lines 72-90).             *)
(* A JSON value is a record with its kind: a turn is null, a string or an  *)
(* object with a role and "parts"; "parts" is missing, an object or a list *)
(* of parts; a part is null, a string or an object. has_text says what     *)
(* '"text" in part' evaluates to: the key is present (object) or the       *)
(* substring occurs (string).                                              *)

NoParts == [kind |-> "missing", items |-> <<>>]
NullTurn == [kind |-> "null", role |-> "", parts |-> NoParts]
StrTurn  == [kind |-> "str", role |-> "", parts |-> NoParts]

\* txt.replace("\r\n", "\n")
RECURSIVE ReplaceCRLF(_)
ReplaceCRLF(t) ==
    IF Len(t) < 2 THEN t
    ELSE IF t[1] = CR /\ t[2] = NL
         THEN <<NL>> \o ReplaceCRLF(SubSeq(t, 3, Len(t)))
         ELSE <<t[1]>> \o ReplaceCRLF(Tail(t))

\* str(parts[0]["text"]).replace("\r\n", "\n").strip()
NormalText(txt) == Strip(ReplaceCRLF(txt))

\* '"text" not in parts[0]' and the parts[0]["text"] that follows it: "in"
\* raises TypeError on None, is a substring test on a string (whose ["text"]
\* then raises TypeError), and a key test on an object
PartCheck(part) ==
    CASE part.kind = "dict" -> IF part.has_text THEN "ok" ELSE "ValueError"
      [] part.kind = "str"  -> IF part.has_text THEN "TypeError" ELSE "ValueError"
      [] OTHER              -> "TypeError"

\* parts = turn.get("parts"); if not isinstance(parts, list) or not parts or
\* "text" not in parts[0]: raise ValueError
TurnCheck(turn) ==
    IF turn.parts.kind # "list" \/ turn.parts.items = <<>> THEN "ValueError"
    ELSE PartCheck(turn.parts.items[1])

\* turn["role"] = role
WithRole(turn, role) == [turn EXCEPT !.role = role]

\* parts[0]["text"] = txt.replace("\r\n", "\n").strip()
Normalized(turn) == [turn EXCEPT !.parts.items[1].text = NormalText(@)]

\* the row with its first turns replaced by those of done
WithTurns(row, done) ==
    [row EXCEPT !.contents.items =
        [i \in 1..Len(@) |-> IF i <= Len(done) THEN done[i] ELSE @[i]]]

RowRaised(err, after) == [err |-> err, out |-> <<>>, after |-> after]

normalize_row(row) ==
    IF ~row.has_contents \/ row.contents.kind # "list"
    THEN RowRaised("ValueError", row)
    ELSE LET contents == row.contents.items IN
    IF Len(contents) < 2 THEN RowRaised("ValueError", row)
    ELSE IF contents[1].kind # "dict" THEN RowRaised("TypeError", row)
    ELSE LET user_turn == WithRole(contents[1], "user") IN
    IF contents[2].kind # "dict"
    THEN RowRaised("TypeError", WithTurns(row, <<user_turn>>))
    ELSE LET model_turn == WithRole(contents[2], "model") IN
    IF TurnCheck(user_turn) # "ok"
    THEN RowRaised(TurnCheck(user_turn), WithTurns(row, <<user_turn, model_turn>>))
    ELSE IF TurnCheck(model_turn) # "ok"
    THEN RowRaised(TurnCheck(model_turn),
                   WithTurns(row, <<Normalized(user_turn), model_turn>>))
    ELSE LET done == <<Normalized(user_turn), Normalized(model_turn)>>
         IN [err |-> "", out |-> done, after |-> WithTurns(row, done)]

MaxParts == 1        \* entries of a "parts" list

RowTexts == {<<"q">>, <<SP, "a", CR, NL, "b", CR, NL>>}

RowParts ==
    {[kind |-> "null", has_text |-> FALSE, text |-> <<>>]}
    \cup {[kind |-> "str", has_text |-> h, text |-> <<>>] : h \in BOOLEAN}
    \cup {[kind |-> "dict", has_text |-> FALSE, text |-> <<>>]}
    \cup {[kind |-> "dict", has_text |-> TRUE, text |-> t] : t \in RowTexts}

RowPartLists ==
    {NoParts, [kind |-> "dict", items |-> <<>>]}
    \cup {[kind |-> "list", items |-> items] :
            items \in UNION {[1..n -> RowParts] : n \in 0..MaxParts}}

RowTurns ==
    {NullTurn, StrTurn}
    \cup {[kind |-> "dict", role |-> r, parts |-> ps] :
            r \in {"user", "assistant"}, ps \in RowPartLists}

\* a third turn, which normalize_row leaves out of what it returns
RowExtraTurns == {<<>>, <<NullTurn>>}

Rows ==
    {[has_contents |-> FALSE, contents |-> [kind |-> "str", items |-> <<>>]],
     [has_contents |-> TRUE, contents |-> [kind |-> "str", items |-> <<>>]]}
    \cup {[has_contents |-> TRUE, contents |-> [kind |-> "list", items |-> items]] :
            items \in UNION {[1..n -> RowTurns] : n \in 0..1}}
    \cup {[has_contents |-> TRUE,
           contents |-> [kind |-> "list", items |-> <<a, b>> \o extra]] :
            a \in RowTurns, b \in RowTurns, extra \in RowExtraTurns}

InitRow ==
    /\ rowIn \in Rows
    /\ rowAfter = rowIn
    /\ rowOut = <<>> /\ rowErr = "" /\ rowPc = "call"
    /\ ParkedPipeline /\ ParkedQuery /\ ParkedTool /\ ParkedAuth

CallNormalizeRow ==
    /\ rowPc = "call"
    /\ LET r == normalize_row(rowIn) IN
       /\ rowErr' = r.err
       /\ rowOut' = r.out
       /\ rowAfter' = r.after
       /\ rowPc' = IF r.err = "" THEN "returned" ELSE "raised"
    /\ UNCHANGED <<rowIn, allButApp, toolVars, authVars>>

NextRow == CallNormalizeRow

SpecRow == InitRow /\ [][NextRow]_vars

\* a turn with a non-empty "parts" list whose first element has a "text" field
HasTextPart(turn) ==
    /\ turn.kind = "dict"
    /\ turn.parts.kind = "list"
    /\ turn.parts.items # <<>>
    /\ turn.parts.items[1].kind = "dict"
    /\ turn.parts.items[1].has_text

\* the rows the claim says are rejected
BadRow(row) ==
    \/ ~row.has_contents
    \/ row.contents.kind # "list"
    \/ Len(row.contents.items) < 2
    \/ ~HasTextPart(row.contents.items[1])
    \/ ~HasTextPart(row.contents.items[2])

\* C22: normalize_row raises ValueError for every row whose "contents" is
\* missing, is no list, has fewer than two turns, or has among its first two
\* turns one without a non-empty "parts" list whose first element has a
\* "text" field; for every other row it returns exactly two turns, with the
\* roles "user" then "model".
C22_ValueErrorOrTwoTurns ==
    rowPc # "call" =>
        IF BadRow(rowIn)
        THEN rowPc = "raised" /\ rowErr = "ValueError"
        ELSE /\ rowPc = "returned"
             /\ Len(rowOut) = 2
             /\ rowOut[1].role = "user"
             /\ rowOut[2].role = "model"

----------------------------------------------------------------------------
(* Claims about the requests of the index build, checked under SpecBuild   *)

\* the sum of the token estimates of the texts of one request
RECURSIVE SumTokens(_)
SumTokens(texts) ==
    IF texts = <<>> THEN 0
    ELSE estimate_tokens(Head(texts)) + SumTokens(Tail(texts))

\* C23: every request the build has issued is non-empty and holds either
\* exactly one passage or at most BATCH_SIZE passages whose estimates sum to
\* at most REQUEST_TOKEN_BUDGET; a passage whose own estimate exceeds the
\* budget is alone in its request.
C23_RequestsWithinBatchAndBudget ==
    \A i \in 1..Len(requests) :
        LET req == requests[i] IN
        /\ req # <<>>
        /\ \/ Len(req) = 1
           \/ /\ Len(req) <= BATCH_SIZE
              /\ SumTokens(req) <= REQUEST_TOKEN_BUDGET
        /\ \A j \in 1..Len(req) :
              estimate_tokens(req[j]) > REQUEST_TOKEN_BUDGET => Len(req) = 1

\* C23 witness: a batch of two passages that together reach the budget has
\* been flushed by the oversized passage that followed, and that passage
\* went out in a request of its own
C23_Witness ==
    /\ Len(requests) = 2
    /\ Len(requests[1]) = 2
    /\ SumTokens(requests[1]) = REQUEST_TOKEN_BUDGET
    /\ Len(requests[2]) = 1
    /\ estimate_tokens(requests[2][1]) > REQUEST_TOKEN_BUDGET

----------------------------------------------------------------------------
(* _split_to_token_budget on bodies of several paragraphs, some of several *)
(* sentences, with budgets that leave room for no, two or three short      *)
(* paragraphs after the title                                              *)

MaxParas == 4        \* paragraphs per body

BlankLine == <<NL, NL>>
LongSentence == Word \o Word \o Word
ParaTexts ==
    {<<"a">>, Word, <<"a", ".", SP, "a">>, Word \o <<".", SP>> \o Word,
     LongSentence}
\* no title, a short one, one to trim, and one that exceeds the budget of 2
ParaTitles  == {<<>>, <<"T">>, <<SP, "T">>, [k \in 1..9 |-> "T"]}
ParaBudgets == {2, 4, 5}

\* the paragraphs of ps with a blank line between them
RECURSIVE BodyOf(_)
BodyOf(ps) ==
    IF ps = <<>> THEN <<>>
    ELSE IF Len(ps) = 1 THEN ps[1]
    ELSE ps[1] \o BlankLine \o BodyOf(Tail(ps))

ParaBodies == {BodyOf(ps) : ps \in UNION {[1..n -> ParaTexts] : n \in 0..MaxParas}}

InitPara ==
    /\ splitTitle \in ParaTitles
    /\ splitBody \in ParaBodies
    /\ splitMax \in ParaBudgets
    /\ splitOut = <<>>
    /\ splitPc = "call"
    /\ OnlySplit

SpecPara == InitPara /\ [][NextSplit]_vars

\* C24: when the title is non-empty after trimming, every unit returned by
\* _split_to_token_budget begins with the trimmed title, whether it is the
\* single-unit return, a paragraph flush, a sentence flush or a window.
C24_EveryUnitBeginsWithTitle ==
    (splitPc = "done" /\ Strip(splitTitle) # <<>>) =>
        \A i \in 1..Len(splitOut) : StartsWith(splitOut[i], Strip(splitTitle))

\* C24 witness: a title that needs trimming; the first paragraph is flushed
\* by the second, which is split into sentences: a paragraph unit and two
\* sentence units
C24_Witness ==
    /\ splitPc = "done"
    /\ splitTitle = <<SP, "T">>
    /\ splitMax = 4
    /\ splitBody = <<"a">> \o BlankLine \o Word \o <<".", SP>> \o Word
    /\ splitOut = << <<"T", NL, NL, "a">>,
                     <<"T", NL, NL>> \o Word \o <<".">>,
                     <<"T", NL, NL>> \o Word >>

\* C25, as an algorithm: a paragraph that would overflow the buffer flushes it
\* and opens the new buffer, unless it exceeds the budget with the title
\* alone in front of it, in which case it is split at sentence boundaries.
\* Returns the chunks and the buffer left over, as the loop of the code does.
RECURSIVE GreedyParas(_, _, _, _, _, _)
GreedyParas(prelude, max_tokens, paras, chunks, cur, cur_tok) ==
    IF paras = <<>> THEN [chunks |-> chunks, cur |-> cur]
    ELSE LET base    == _count_tokens(prelude) + 1
             para    == Head(paras)
             ptok    == _count_tokens(para)
             flushed == IF cur_tok > base
                        THEN AppendIfText(chunks, Strip(Join(<<NL>>, cur)))
                        ELSE chunks
         IN IF cur_tok + ptok <= max_tokens
            THEN GreedyParas(prelude, max_tokens, Tail(paras), chunks,
                             Append(cur, para), cur_tok + ptok)
            ELSE IF base + ptok <= max_tokens
            THEN GreedyParas(prelude, max_tokens, Tail(paras), flushed,
                             <<prelude, <<>>, para>>, base + ptok)
            ELSE GreedyParas(prelude, max_tokens, Tail(paras),
                             SentLoop(prelude, max_tokens, SplitSents(para),
                                      flushed, <<>>, 0),
                             <<prelude, <<>>>>, base)

\* the input is returned as one unit (line 182)
FitsWhole(title, body, max_tokens) ==
    _count_tokens(IF body # <<>> THEN Strip(title \o <<NL, NL>> \o body)
                  ELSE Strip(title)) <= max_tokens

\* C25: a paragraph that would overflow the buffer flushes it and becomes the
\* first paragraph of the new buffer, where the following paragraphs join it
\* while they fit; only a paragraph that exceeds the budget on its own with
\* the title is split at sentence boundaries. The units are those of this
\* accumulation, the last buffer and the over-budget units treated as the
\* code treats them.
C25_OverflowingParagraphOpensBuffer ==
    (splitPc = "done" /\ ~FitsWhole(splitTitle, splitBody, splitMax)) =>
        LET prelude == Strip(splitTitle)
            paras   == StripNonEmpty(SplitBlank(splitBody))
            r       == GreedyParas(prelude, splitMax, paras, <<>>,
                                   <<prelude, <<>>>>, _count_tokens(prelude) + 1)
            last    == Strip(Join(<<NL>>, r.cur))
            chunks  == IF last # <<>>
                          /\ _count_tokens(last) > _count_tokens(prelude) + 1
                       THEN Append(r.chunks, last) ELSE r.chunks
        IN splitOut = BudgetPass(prelude, splitMax, chunks)

----------------------------------------------------------------------------
(* A further claim about _fallback_chunks, checked on the stepwise loop    *)

\* C26: for size > 0, whenever a window is followed by another one, the two
\* start exactly size - overlap characters apart, overlap being the clamped
\* value; this holds for every pair, the last windows of the text included.
C26_WindowsStepBySizeMinusOverlap ==
    [][(fbChunks' # fbChunks /\ fbStart' < Len(fbText))
          => fbStart' - fbStart = fbArgs[1] - fbOverlap]_vars

----------------------------------------------------------------------------
(* The two token estimates: _count_tokens of model/pdf_ingest.py and       *)
(* estimate_tokens of model/embed_and_index.py, tiktoken absent in both    *)

MaxTokLen == 7       \* characters of the string

TokChars == {<<"a">>, <<SP>>}

InitTokens ==
    /\ chunkTxt \in Texts(TokChars, MaxTokLen)
    /\ chunkArgs = <<>> /\ chunkOut = <<>> /\ chunkRecords = <<>>
    /\ chunkRan = <<>> /\ chunkPc = "call"
    /\ OnlyChunk

\* the segmentation pipeline and the index builder each estimate the string
CallEstimates ==
    /\ chunkPc = "call"
    /\ chunkOut' = <<_count_tokens(chunkTxt), estimate_tokens(chunkTxt)>>
    /\ chunkPc' = "estimated"
    /\ UNCHANGED callFrame

NextTokens == CallEstimates

SpecTokens == InitTokens /\ [][NextTokens]_vars

\* C27: without the real tokenizer, _count_tokens and estimate_tokens give
\* the same estimate for every string, max(ceil(words * 1.33), ceil(chars / 4)).
C27_EstimatesAgree ==
    chunkPc = "estimated" =>
        /\ chunkOut[1] = chunkOut[2]
        /\ chunkOut[1] = Max(CeilDiv(WordCount(chunkTxt) * 133, 100),
                             CeilDiv(Len(chunkTxt), 4))

\* s without its whitespace
Squeeze(s) == Pick(s, [i \in 1..Len(s) |-> s[i] \notin WS], 1, Len(s))

\* what a unit holds after the title it begins with
AfterTitle(unit, prelude) ==
    IF StartsWith(unit, prelude)
    THEN SubSeq(unit, Len(prelude) + 1, Len(unit))
    ELSE unit

\* the text of the units after their titles, in the order of the list
RECURSIVE BodyText(_, _)
BodyText(units, prelude) ==
    IF units = <<>> THEN <<>>
    ELSE AfterTitle(Head(units), prelude) \o BodyText(Tail(units), prelude)

\* the characters s[i..] are found in t[j..], in order
RECURSIVE FoundInOrder(_, _, _, _)
FoundInOrder(s, i, t, j) ==
    IF i > Len(s) THEN TRUE
    ELSE IF j > Len(t) THEN FALSE
    ELSE IF s[i] = t[j] THEN FoundInOrder(s, i + 1, t, j + 1)
    ELSE FoundInOrder(s, i, t, j + 1)

\* C28: _split_to_token_budget loses no text: a non-empty input gives a
\* non-empty list, and the paragraphs of the body are all found in the units,
\* whole or spread over consecutive units, in document order: apart from
\* whitespace, the body is found, in order, in the text that the units hold
\* after their titles.
C28_NoTextLost ==
    splitPc = "done" =>
        /\ (Strip(splitTitle) # <<>> \/ Strip(splitBody) # <<>>) => splitOut # <<>>
        /\ FoundInOrder(Squeeze(splitBody), 1,
                        Squeeze(BodyText(splitOut, Strip(splitTitle))), 1)

\* C29: when the body is non-empty, no unit returned by
\* _split_to_token_budget is the title alone, without body text; this
\* includes the case where the first sentence of an overflowing paragraph
\* does not fit the budget together with the title.
C29_NoTitleOnlyUnit ==
    (splitPc = "done" /\ Strip(splitBody) # <<>>) =>
        \A i \in 1..Len(splitOut) : splitOut[i] # Strip(splitTitle)

----------------------------------------------------------------------------
(* app/backend/main.py: the env-based auth. _allowed_map (lines 132-141),  *)
(* _auth_email_from_token and _require_auth (143-163), login (307-317) and *)
(* logout (319-328). A token is a number: 1..NumAuthTokens are the values  *)
(* secrets.token_urlsafe returns, 0 is a string it never returns.          *)

NumAuthTokens == 2   \* tokens login can issue

NoToken  == -1       \* no token: None or the empty string
NoHeader == [scheme |-> "", token |-> NoToken]
NoEmail  == <<>>     \* None
DEV_LOCAL == <<"d", "e", "v", "@", "l", "o", "c", "a", "l">>

\* s.split(c): the pieces between the occurrences of c, empty ones kept
RECURSIVE SplitOn(_, _)
SplitOn(s, c) ==
    IF \A i \in 1..Len(s) : s[i] # c THEN <<s>>
    ELSE LET k == CHOOSE i \in 1..Len(s) :
                      s[i] = c /\ \A j \in 1..(i - 1) : s[j] # c
         IN <<SubSeq(s, 1, k - 1)>> \o SplitOn(SubSeq(s, k + 1, Len(s)), c)

\* email, pw = pair.split(":", 1); the key is email.strip().lower()
PairOf(pair) ==
    LET k == CHOOSE i \in 1..Len(pair) :
                 pair[i] = ":" /\ \A j \in 1..(i - 1) : pair[j] # ":"
    IN [email |-> Lower(Strip(SubSeq(pair, 1, k - 1))),
        pw    |-> SubSeq(pair, k + 1, Len(pair))]

\* the pairs of the list that hold a colon, in list order
RECURSIVE PairsOf(_)
PairsOf(pairs) ==
    IF pairs = <<>> THEN <<>>
    ELSE (IF \E i \in 1..Len(Head(pairs)) : Head(pairs)[i] = ":"
          THEN <<PairOf(Head(pairs))>> ELSE <<>>) \o PairsOf(Tail(pairs))

\* _allowed_map(): the dict, as the list of its assignments m[email] = pw
_allowed_map(users) ==
    IF Strip(users) = <<>> THEN <<>> ELSE PairsOf(SplitOn(Strip(users), ","))

\* email in allowed
AllowedHas(allowed, email) == \E i \in 1..Len(allowed) : allowed[i].email = email

\* allowed[email]: the last assignment to the key stands
AllowedPw(allowed, email) ==
    LET last == CHOOSE i \in 1..Len(allowed) :
                    /\ allowed[i].email = email
                    /\ \A j \in (i + 1)..Len(allowed) : allowed[j].email # email
    IN allowed[last].pw

\* login's test: allowed and (email not in allowed or allowed.get(email) != pw)
Unauthorized(allowed, email, pw) ==
    IF allowed = <<>> THEN FALSE
    ELSE IF AllowedHas(allowed, email) THEN AllowedPw(allowed, email) # pw
    ELSE TRUE

\* auth.lower().startswith("bearer ") and auth.split(" ", 1)[1].strip()
BearerToken(header) == IF header.scheme = "bearer" THEN header.token ELSE NoToken

\* _auth_email_from_token(token)
_auth_email_from_token(tokens, token) ==
    IF token = NoToken THEN NoEmail
    ELSE IF token \in DOMAIN tokens THEN tokens[token] ELSE NoEmail

\* _require_auth(request): the email, or NoEmail for HTTPException(401)
_require_auth(tokens, users, header, query) ==
    LET bearer == IF header.scheme = "bearer"
                  THEN _auth_email_from_token(tokens, header.token) ELSE NoEmail
        param  == IF bearer = NoEmail /\ query # NoToken
                  THEN _auth_email_from_token(tokens, query) ELSE bearer
    IN IF param = NoEmail /\ _allowed_map(users) = <<>> THEN DEV_LOCAL ELSE param

\* the token logout removes: the Bearer token, or else the token parameter
LogoutToken(header, query) ==
    IF BearerToken(header) # NoToken THEN BearerToken(header) ELSE query

\* TOKENS.pop(token, None)
Popped(tokens, token) == [t \in (DOMAIN tokens) \ {token} |-> tokens[t]]

\* TOKENS[token] = email
Stored(tokens, token, email) ==
    [t \in (DOMAIN tokens) \cup {token} |-> IF t = token THEN email ELSE tokens[t]]

AuthUserLists ==
    {<<"a", ":", "p">>,
     <<"A", ":", "p", ",", "b", ":", "q">>,
     <<SP, "a", SP, ":", "p">>,
     <<"a", ":", "p", ",", "a", ":", "q">>,
     <<"x", ",", "a", ":", "p">>}

LoginEmails    == {<<"a">>, <<SP, "A">>, <<"b">>}
LoginPasswords == {<<"p">>, <<"q">>}

AuthTokens  == 0..NumAuthTokens
AuthHeaders ==
    {NoHeader, [scheme |-> "basic", token |-> 1]}
    \cup {[scheme |-> "bearer", token |-> t] : t \in AuthTokens \cup {NoToken}}
AuthParams  == AuthTokens \cup {NoToken}

LastOp(op, header, query, email, pw, result) ==
    [op |-> op, header |-> header, query |-> query, email |-> email,
     pw |-> pw, result |-> result]

InitAuth ==
    /\ ALLOWED_USERS \in AuthUserLists
    /\ TOKENS = <<>>
    /\ authIssued = {}
    /\ authLoggedOut = {}
    /\ authLast = LastOp("start", NoHeader, NoToken, NoEmail, <<>>, "")
    /\ ParkedPipeline /\ ParkedQuery /\ ParkedTool /\ ParkedRow

IssuedTokens == {c.token : c \in authIssued}

\* POST /api/login with the right credentials: a new token is stored
LoginOk ==
    \E given \in LoginEmails, pw \in LoginPasswords :
    \E token \in (1..NumAuthTokens) \ IssuedTokens :
        LET email   == Lower(Strip(given))
            allowed == _allowed_map(ALLOWED_USERS)
        IN /\ ~Unauthorized(allowed, email, pw)
           /\ TOKENS' = Stored(TOKENS, token,
                               IF email # <<>> THEN email ELSE DEV_LOCAL)
           /\ authIssued' = authIssued \cup
                               {[token |-> token, email |-> given, pw |-> pw]}
           /\ authLast' = LastOp("login", NoHeader, NoToken, given, pw, "token")
           /\ UNCHANGED <<ALLOWED_USERS, authLoggedOut>>
           /\ UNCHANGED <<allButApp, toolVars, rowVars>>

\* POST /api/login with an unknown email or a wrong password: 401
LoginRefused ==
    \E given \in LoginEmails, pw \in LoginPasswords :
        LET email   == Lower(Strip(given))
            allowed == _allowed_map(ALLOWED_USERS)
        IN /\ Unauthorized(allowed, email, pw)
           /\ authLast' = LastOp("login", NoHeader, NoToken, given, pw, "401")
           /\ UNCHANGED <<ALLOWED_USERS, TOKENS, authIssued, authLoggedOut>>
           /\ UNCHANGED <<allButApp, toolVars, rowVars>>

\* POST /api/logout
Logout ==
    \E header \in AuthHeaders, query \in AuthParams :
        LET token == LogoutToken(header, query) IN
        /\ TOKENS' = IF token # NoToken /\ token \in DOMAIN TOKENS
                     THEN Popped(TOKENS, token) ELSE TOKENS
        /\ authLoggedOut' = authLoggedOut \cup
               (({BearerToken(header), query} \ {NoToken}) \cap IssuedTokens)
        /\ authLast' = LastOp("logout", header, query, NoEmail, <<>>, "ok")
        /\ UNCHANGED <<ALLOWED_USERS, authIssued>>
        /\ UNCHANGED <<allButApp, toolVars, rowVars>>

\* a request to an endpoint that depends on _require_auth
Request ==
    \E header \in AuthHeaders, query \in AuthParams :
        LET email == _require_auth(TOKENS, ALLOWED_USERS, header, query) IN
        /\ authLast' = LastOp("request", header, query, email, <<>>,
                              IF email = NoEmail THEN "401" ELSE "accepted")
        /\ UNCHANGED <<ALLOWED_USERS, TOKENS, authIssued, authLoggedOut>>
        /\ UNCHANGED <<allButApp, toolVars, rowVars>>

NextAuth == LoginOk \/ LoginRefused \/ Logout \/ Request

SpecAuth == InitAuth /\ [][NextAuth]_vars

\* a well-formed pair of ALLOWED_USERS with this email and this password
Configured(users, email, pw) ==
    \E i \in 1..Len(SplitOn(users, ",")) :
        LET pair == SplitOn(users, ",")[i] IN
        /\ \E k \in 1..Len(pair) : pair[k] = ":"
        /\ PairOf(pair) = [email |-> Lower(Strip(email)), pw |-> pw]

\* C30: with at least one well-formed pair in ALLOWED_USERS, and after any
\* sequence of logins, logouts and requests, _require_auth accepts a request
\* only if it carries, as Bearer token or as token parameter, a token that a
\* login with a configured email and password returned and that no logout
\* request has carried since; every other request gets 401, so a token is
\* never accepted again after its logout.
C30_OnlyLiveTokensAccepted ==
    (authLast.op = "request" /\ authLast.result = "accepted") =>
        \E c \in authIssued :
            /\ c.token \in {BearerToken(authLast.header), authLast.query}
            /\ Configured(ALLOWED_USERS, c.email, c.pw)
            /\ c.token \notin authLoggedOut

====
